---- MODULE Spec2Model ----
(***************************************************************************)
(* RustyClaw: the messenger tool loop (src/gateway/messenger_handler.rs)   *)
(* and the gateway connection handler (src/gateway.rs) as state machines.  *)
(*                                                                         *)
(* Text is a sequence of tokens: <<>> is the empty string and \o is        *)
(* String::push_str.  Option<T> is a sequence of length at most one.       *)
(***************************************************************************)
EXTENDS Integers, Sequences, FiniteSets, TLC

\* ------------------------------------------------------------------------
\* Program constants
\* ------------------------------------------------------------------------

MAX_HISTORY_MESSAGES == 50

MAX_TOOL_ROUNDS == 25

\* ------------------------------------------------------------------------
\* Bounds of the model
\* ------------------------------------------------------------------------

\* tool calls in one provider response
MaxCalls == 2

\* tokens of reply text the provider returns for one incoming message
MaxReplyLen == 2

\* poll cycles of the messenger loop
MaxPolls == 1

\* poll cycles of the messenger loop with several messengers
MaxCycles == 2

\* rounds of one incoming message, counted from the first, in which the
\* provider may request more than one tool call
MaxVariedRounds == 2

\* ------------------------------------------------------------------------
\* Tool catalog (src/tools/mod.rs)
\* ------------------------------------------------------------------------

all_tools ==
    { "read_file", "write_file", "edit_file", "list_directory", "search_files",
      "find_files", "execute_command", "web_fetch", "web_search", "process",
      "memory_search", "memory_get", "cron", "sessions_list", "sessions_spawn",
      "sessions_send", "sessions_history", "session_status", "agents_list",
      "apply_patch", "secrets_list", "secrets_get", "secrets_store", "gateway",
      "message", "tts", "image", "nodes", "browser", "canvas", "skill_list",
      "skill_search", "skill_install", "skill_info", "skill_enable",
      "skill_link_secret" }

\* Faulty variant of is_secrets_tool: secrets_get is not matched.
is_secrets_tool_without_get(name) == name \in {"secrets_list", "secrets_store"}

is_secrets_tool(name) == name \in {"secrets_list", "secrets_get", "secrets_store"}

\* Faulty variant of is_skill_tool: skill_list is not matched.
is_skill_tool_without_list(name) ==
    name \in { "skill_search", "skill_install", "skill_info", "skill_enable",
               "skill_link_secret" }

is_skill_tool(name) ==
    name \in { "skill_list", "skill_search", "skill_install", "skill_info",
               "skill_enable", "skill_link_secret" }

\* The catalog entries of the three secrets tools run exec_secrets_stub,
\* which always returns an error.
SecretsStubTools == {"secrets_list", "secrets_get", "secrets_store"}

\* A Result<String, String>: ok is FALSE for Err.
Ok(text) == [ok |-> TRUE, text |-> text]
Err(text) == [ok |-> FALSE, text |-> text]

\* execute_tool(name, args, workspace_dir): the results the call can have.
\* What a catalogued executor returns depends on the workstation (files,
\* network), so both outcomes are possible for it.
execute_tool(name) ==
    IF name \in all_tools
    THEN IF name \in SecretsStubTools
         THEN { Err(<<"requires gateway">>) }
         ELSE { Ok(<<"output">>), Err(<<"failed">>) }
    ELSE { Err(<<"Unknown tool: ", name>>) }

\* Faulty variant of ToolCallResult: the error of the executor is not flagged.
ToolCallResultNoErrorFlag(tc, res) ==
    [id |-> tc.id, name |-> tc.name, output |-> res.text, is_error |-> FALSE]

\* Faulty variant of ToolCallResult: the result does not carry the call's id.
ToolCallResultIdFromName(tc, res) ==
    [id |-> tc.name, name |-> tc.name, output |-> res.text, is_error |-> ~res.ok]

\* ToolCallResult { id, name, output, is_error } built from the executor's
\* Result for the call tc.
ToolCallResult(tc, res) ==
    [id |-> tc.id, name |-> tc.name, output |-> res.text, is_error |-> ~res.ok]

\* ------------------------------------------------------------------------
\* State
\* ------------------------------------------------------------------------

VARIABLES
    \* run_messenger_loop / process_incoming_message
    cancelled,       \* the cancellation token given to run_messenger_loop
    messengers,      \* MessengerManager.messengers: sequence of [name, mtype]
    mpc,             \* position of the messenger task
    polls,           \* poll cycles done so far
    pending,         \* messages of the current cycle not yet processed
    cur,             \* Option<(messenger_type, msg)>: the message in process
    conversations,   \* ConversationStore: conv_key -> history
    messages,        \* the message list of the request: the local `messages`
                     \* and resolved.messages, built from it entry by entry
    round,           \* iterations of the tool loop started = provider calls
    final_response,  \* the accumulated reply text
    model_resp,      \* Option<response> of the current round
    started,         \* indices of the calls of this round started, in order
    running,         \* indices of the calls of this round now executing
    tool_results,    \* the current round's Vec<ToolCallResult>
    toolRan,         \* some tool was executed for the current message
    loopExit,        \* how the tool loop was left: none, break, cap, error
    ret,             \* Option<Result> of the last process_incoming_message
    errlog,          \* the errors written to stderr since the last message began
    msgNo,           \* incoming messages whose processing has begun
    outbox,          \* messages sent through messengers
    storeGuard,      \* the guard of `conversations` the messenger task holds:
                     \* none, snapshot, update
    mgrGuard,        \* the guard of `messenger_mgr` the messenger task holds:
                     \* none, poll, send
    \* run_gateway / handle_connection (src/gateway.rs)
    gcancel,         \* the root cancellation token of run_gateway
    gwpc,            \* the accept loop: accepting, stopped, failed
    nframes,         \* frames the clients have sent so far, all connections
    gpc,             \* per connection: position of its handle_connection task
    sent,            \* per connection: the frames written to the client
    received,        \* per connection: the frames read from the client
    gresp,           \* per connection: Option<frame> about to be written
    gout,            \* per connection: Option<provider outcome> of the frame
    gcalls,          \* per connection: provider calls made for the frame
    \* send_command_via_gateway (src/main.rs)
    cpc,             \* position of the one-shot sender
    cmd,             \* Option<text>: the command of the one-shot sender
    csent,           \* the sender has written its command
    cread,           \* frames of the gateway the sender has read
    cret,            \* Option<Result>: what send_command_via_gateway returns
    \* the secrets vault (SecretsManager)
    vault,           \* the entries of the vault: name -> SecretEntry and value
    vlocked,         \* the vault is locked
    vctx,            \* the current AccessContext of the gateway
    vreq,            \* Option<(name, ctx)>: the last get(name, ctx)
    vret,            \* Option<Result>: what that get returned
    \* the gateway tool (src/tools/gateway_tools.rs)
    cfgFile,         \* Option<text>: the content of openclaw.json, if it exists
    gwReq,           \* Option<args>: the arguments of the last exec_gateway
    gwRet,           \* Option<Result>: what that exec_gateway returned
    base,            \* Option<Value>: the first argument of a merge_json
    patch,           \* Option<Value>: its second argument
    merged           \* Option<Value>: what merge_json(base, patch) returned

mvars ==
    << cancelled, messengers, mpc, polls, pending, cur, conversations,
       messages, round, final_response, model_resp, started, running,
       tool_results, toolRan, loopExit, ret, errlog, msgNo, outbox,
       storeGuard, mgrGuard >>

lockvars == << storeGuard, mgrGuard >>

loopvars ==
    << round, final_response, model_resp, started, running, tool_results,
       toolRan, loopExit >>

gvars == << gcancel, gwpc, nframes, gpc, sent, received, gresp, gout, gcalls >>

svars == << cpc, cmd, csent, cread, cret >>

vvars == << vault, vlocked, vctx, vreq, vret >>

tvars == << cfgFile, gwReq, gwRet, base, patch, merged >>

vars == << mvars, gvars, svars, vvars, tvars >>

None == << >>
Some(x) == << x >>

\* ------------------------------------------------------------------------
\* The secrets vault: policy evaluation of get(name, context)
\* ------------------------------------------------------------------------

\* AccessPolicy: Always, WithApproval, WithAuth, SkillOnly(skills); the skills
\* of SkillOnly are kept as a set, none or one.
AccessPolicies ==
    { [kind |-> "always", skills |-> {}],
      [kind |-> "with_approval", skills |-> {}],
      [kind |-> "with_auth", skills |-> {}],
      [kind |-> "skill_only", skills |-> {}],
      [kind |-> "skill_only", skills |-> { "deploy" }] }

\* AccessContext { user_approved, authenticated, active_skill }
AccessContexts ==
    [ user_approved : BOOLEAN, authenticated : BOOLEAN,
      active_skill : { None, Some("deploy"), Some("other") } ]

\* AccessContext::default()
DefaultContext ==
    [user_approved |-> FALSE, authenticated |-> FALSE, active_skill |-> None]

\* SecretEntry { policy, disabled } with the value stored beside it.
SecretEntries ==
    [ policy : AccessPolicies, disabled : BOOLEAN, value : { << "s3cr3t" >> } ]

\* Names a get may ask for: one that the vaults below hold and one that
\* they do not.
SecretNames == { "api_key", "missing" }

\* Vaults: empty, or holding one entry.
VaultContents ==
    { << >> } \cup { [n \in { "api_key" } |-> e] : e \in SecretEntries }

\* Faulty variant of PolicyGrants: an empty skill list locks nothing.
PolicyGrantsEmptyListOpen(policy, ctx) ==
    CASE policy.kind = "always" -> TRUE
      [] policy.kind = "with_approval" -> ctx.user_approved
      [] policy.kind = "with_auth" -> ctx.authenticated
      [] policy.kind = "skill_only" ->
            \/ policy.skills = {}
            \/ ctx.active_skill # None /\ ctx.active_skill[1] \in policy.skills

\* The policy table of get(name, context).
PolicyGrants(policy, ctx) ==
    CASE policy.kind = "always" -> TRUE
      [] policy.kind = "with_approval" -> ctx.user_approved
      [] policy.kind = "with_auth" -> ctx.authenticated
      [] policy.kind = "skill_only" ->
            ctx.active_skill # None /\ ctx.active_skill[1] \in policy.skills

\* get(name, context): the value, or one of the failures vault-locked,
\* not-found, policy-denied and disabled.  A disabled entry is listed, but
\* its value cannot be read.
get(contents, locked, name, ctx) ==
    IF locked THEN Err(<< "vault-locked" >>)
    ELSE IF name \notin DOMAIN contents THEN Err(<< "not-found" >>)
    ELSE IF ~PolicyGrants(contents[name].policy, ctx) THEN Err(<< "policy-denied" >>)
    ELSE IF contents[name].disabled THEN Err(<< "disabled" >>)
    ELSE Ok(contents[name].value)

\* Faulty variant of secrets_get: a failed get is returned as ordinary output.
secrets_get_failure_as_output(cred) ==
    Ok(get(vault, vlocked, cred, vctx).text)

\* secrets_handler::execute_secrets_tool for a secrets_get of the credential
\* cred: get with the current access context, a failure being the error
\* text of the tool result; the text of policy-denied names the policy.
secrets_get(cred) ==
    LET r == get(vault, vlocked, cred, vctx)
    IN  IF ~r.ok /\ r.text = << "policy-denied" >>
        THEN Err(<< "policy-denied", vault[cred].policy.kind >>)
        ELSE r

\* secrets_handler::execute_secrets_tool and skills_handler::execute_skill_tool
\* as seen from their call sites: a Result<String, String>.
execute_secrets_tool(name) ==
    IF name = "secrets_get"
    THEN { secrets_get(cred) : cred \in SecretNames }
    ELSE { Ok(<<"secret output">>), Err(<<"denied">>) }

execute_skill_tool(name) == { Ok(<<"skill output">>), Err(<<"skill failed">>) }

\* The dispatch of one tool call in the loop: which executor runs.
Route(name) ==
    IF is_secrets_tool(name) THEN "vault"
    ELSE IF is_skill_tool(name) THEN "skill"
    ELSE "direct"

\* The results the dispatched executor can return.
Dispatch(name) ==
    IF is_secrets_tool(name) THEN execute_secrets_tool(name)
    ELSE IF is_skill_tool(name) THEN execute_skill_tool(name)
    ELSE execute_tool(name)

\* ------------------------------------------------------------------------
\* Inputs
\* ------------------------------------------------------------------------

RECURSIVE SeqsUpTo(_, _)
\* all sequences over S of length at most n
SeqsUpTo(S, n) ==
    IF n = 0 THEN { << >> }
    ELSE LET shorter == SeqsUpTo(S, n - 1)
         IN  shorter \cup { Append(q, x) : q \in shorter, x \in S }

\* Requested tool calls {id, name}: a direct tool, a vault tool, a skill tool
\* and a name that is in no catalog.  The arguments object is opaque to the
\* loop.  Ids come from the provider and may repeat within a response.
ToolCalls ==
    { [id |-> "t1", name |-> "read_file"], [id |-> "t2", name |-> "secrets_get"],
      [id |-> "t1", name |-> "skill_list"], [id |-> "t2", name |-> "no_such_tool"] }

Texts == { << >>, << "a" >> }

\* A normalised provider response {text, tool_calls}.
Responses == [ text : Texts, tool_calls : SeqsUpTo(ToolCalls, MaxCalls) ]

\* Incoming messages of a poll.
IncomingMessages ==
    { [id |-> "m1", sender |-> "alice", content |-> << "hi" >>, channel |-> None] }

\* What one messenger's receive_messages() returns.
ReceiveResults == { Err(<< >>) } \cup { Ok(q) : q \in SeqsUpTo(IncomingMessages, 1) }

\* ------------------------------------------------------------------------
\* Helpers of process_incoming_message
\* ------------------------------------------------------------------------

ChatMessage(role, content) ==
    [role |-> role, content |-> Some(content), tool_calls |-> None,
     tool_call_id |-> None]

\* msg.channel.as_deref().unwrap_or(&msg.sender)
ChannelOrSender(msg) == IF msg.channel = None THEN msg.sender ELSE msg.channel[1]

\* Faulty variant of ConvKey: the messenger type is left out of the key.
ConvKeyWithoutType(mtype, msg) == << "", ":", ChannelOrSender(msg) >>

\* format!("{}:{}", messenger_type, channel-or-sender)
ConvKey(mtype, msg) == << mtype, ":", ChannelOrSender(msg) >>

build_messenger_system_prompt(mtype, msg) ==
    << "base prompt", "Channel: ", IF msg.channel = None THEN "direct" ELSE msg.channel[1],
       "Sender: ", msg.sender, "Platform: ", mtype >>

\* store.entry(conv_key).or_insert_with(Vec::new)
EntryOrInsert(store, key) ==
    IF key \in DOMAIN store THEN store
    ELSE [k \in DOMAIN store \cup {key} |-> IF k = key THEN << >> ELSE store[k]]

\* Faulty variant of WithSystemPrompt: the system message is pushed at the end.
WithSystemPromptPushed(hist, prompt) == Append(hist, ChatMessage("system", prompt))

\* The system message is inserted at index 0 when the history has none there,
\* and otherwise its content is replaced.
WithSystemPrompt(hist, prompt) ==
    IF hist = << >> \/ hist[1].role # "system"
    THEN << ChatMessage("system", prompt) >> \o hist
    ELSE [hist EXCEPT ![1].content = Some(prompt)]

\* The entries providers::append_tool_round appends for one round: an
\* assistant entry with the emitted tool calls, then one tool-result entry
\* per result.  They are in the provider's wire shape, which the loop never
\* reads: the model keeps their role and which fields they fill.
AssistantToolCallsEntry ==
    [role |-> "assistant", content |-> None, tool_calls |-> Some("tool_calls"),
     tool_call_id |-> None]

ToolResultEntry ==
    [role |-> "tool", content |-> Some(<< "result" >>), tool_calls |-> None,
     tool_call_id |-> Some("id")]

append_tool_round(msgs, resp, results) ==
    msgs \o << AssistantToolCallsEntry >> \o [i \in 1..Len(results) |-> ToolResultEntry]

\* Vec::remove(i), i counted from 1
RemoveAt(q, i) == SubSeq(q, 1, i - 1) \o SubSeq(q, i + 1, Len(q))

RECURSIVE TrimHistoryLoose(_)
\* Faulty variant of TrimHistory: the cap is taken one entry too high.
TrimHistoryLoose(h) ==
    IF Len(h) > MAX_HISTORY_MESSAGES + 1 /\ Len(h) > 1 /\ h[2].role # "system"
    THEN TrimHistoryLoose(RemoveAt(h, 2))
    ELSE h

\* Faulty variant of TrimHistory: an if in place of the while, one entry is
\* removed at most.
TrimHistoryOnce(h) ==
    IF Len(h) > MAX_HISTORY_MESSAGES /\ Len(h) > 1 /\ h[2].role # "system"
    THEN RemoveAt(h, 2)
    ELSE h

RECURSIVE TrimHistory(_)
\* while history.len() > MAX { if len > 1 && history[1].role != "system"
\*                             { history.remove(1) } else { break } }
TrimHistory(h) ==
    IF Len(h) > MAX_HISTORY_MESSAGES /\ Len(h) > 1 /\ h[2].role # "system"
    THEN TrimHistory(RemoveAt(h, 2))
    ELSE h

IsWhitespace(tok) == tok \in { " ", "\n" }

RECURSIVE TrimStart(_)
TrimStart(t) ==
    IF t # << >> /\ IsWhitespace(t[1]) THEN TrimStart(Tail(t)) ELSE t

RECURSIVE TrimEnd(_)
TrimEnd(t) ==
    IF t # << >> /\ IsWhitespace(t[Len(t)]) THEN TrimEnd(SubSeq(t, 1, Len(t) - 1))
    ELSE t

\* str::trim
StrTrim(t) == TrimEnd(TrimStart(t))

\* Faulty variant of ShouldSend: the reply is compared without trimming.
ShouldSendUntrimmed(reply) ==
    /\ reply # << >>
    /\ reply # << "NO_REPLY" >>
    /\ reply # << "HEARTBEAT_OK" >>

\* The condition under which the reply is sent back via the messenger.
ShouldSend(reply) ==
    /\ reply # << >>
    /\ StrTrim(reply) # << "NO_REPLY" >>
    /\ StrTrim(reply) # << "HEARTBEAT_OK" >>

RECURSIVE FindByType(_, _, _)
FindByType(ms, mtype, i) ==
    IF i > Len(ms) THEN None
    ELSE IF ms[i].mtype = mtype THEN Some(ms[i].name)
    ELSE FindByType(ms, mtype, i + 1)

\* MessengerManager::get_messenger_by_type: the first messenger of the type
get_messenger_by_type(ms, mtype) == FindByType(ms, mtype, 1)

\* Faulty variant of LoopContinues: an inclusive range.
LoopContinuesOffByOne(r) == r <= MAX_TOOL_ROUNDS

\* for _round in 0..MAX_TOOL_ROUNDS: another iteration starts after r of them
LoopContinues(r) == r < MAX_TOOL_ROUNDS

\* The tool calls of the current round's response.
Calls == IF model_resp = None THEN << >> ELSE model_resp[1].tool_calls

\* Faulty variant of ToolMayStart: the calls of a round are spawned together.
ToolMayStartAlways == TRUE

\* A tool call of the round is started only when no other one is executing:
\* execute_tool is a synchronous call and the two handlers are awaited
\* inside the for loop.
ToolMayStart == running = {}

RECURSIVE poll_all_messengers_until_error(_, _)
\* Faulty variant of poll_all_messengers: the poll ends at the first messenger
\* whose receive_messages() fails.
poll_all_messengers_until_error(rs, i) ==
    IF i > Len(messengers) \/ ~rs[i].ok THEN << >>
    ELSE [j \in 1..Len(rs[i].text) |->
             [mtype |-> messengers[i].mtype, msg |-> rs[i].text[j],
              origin |-> messengers[i].name]]
         \o poll_all_messengers_until_error(rs, i + 1)

RECURSIVE poll_all_messengers(_, _)
\* The (messenger_type, msg) pairs of one poll, messenger by messenger; rs[i]
\* is what messenger i's receive_messages() returned, an Err being skipped.
\* origin records the name of the messenger that returned the message: the
\* code's pair does not keep it, and only the properties of reply routing
\* read it.
poll_all_messengers(rs, i) ==
    IF i > Len(messengers) THEN << >>
    ELSE (IF rs[i].ok
          THEN [j \in 1..Len(rs[i].text) |->
                   [mtype |-> messengers[i].mtype, msg |-> rs[i].text[j],
                    origin |-> messengers[i].name]]
          ELSE << >>) \o poll_all_messengers(rs, i + 1)

\* eprintln!("[messenger] Error polling {}: {}", messenger.messenger_type(), e)
PollErrorLine(mtype) ==
    CASE mtype = "discord" -> "Error polling discord"
      [] mtype = "telegram" -> "Error polling telegram"
      [] OTHER -> "Error polling"

\* The lines one poll writes to stderr: one per messenger whose
\* receive_messages() failed, in the order of the messengers.
poll_errors(rs) ==
    LET failed == SelectSeq([i \in 1..Len(messengers) |-> i], LAMBDA i : ~rs[i].ok)
    IN  [k \in 1..Len(failed) |-> PollErrorLine(messengers[failed[k]].mtype)]

\* ------------------------------------------------------------------------
\* run_messenger_loop
\* ------------------------------------------------------------------------

MInit ==
    /\ cancelled = FALSE
    /\ messengers = << [name |-> "tg", mtype |-> "telegram"] >>
    /\ mpc = "sleep"
    /\ polls = 0
    /\ pending = << >>
    /\ cur = None
    /\ conversations = << >>
    /\ messages = << >>
    /\ round = 0
    /\ final_response = << >>
    /\ model_resp = None
    /\ started = << >>
    /\ running = {}
    /\ tool_results = << >>
    /\ toolRan = FALSE
    /\ loopExit = "none"
    /\ ret = None
    /\ errlog = << >>
    /\ msgNo = 0
    /\ outbox = << >>
    /\ storeGuard = "none"
    /\ mgrGuard = "none"

\* The cancellation token is triggered (by whoever owns it).
CancelToken ==
    /\ ~cancelled
    /\ cancelled' = TRUE
    /\ UNCHANGED << messengers, mpc, polls, pending, cur, conversations, messages,
                    loopvars, ret, errlog, msgNo, outbox >>
    /\ UNCHANGED lockvars
    /\ UNCHANGED gvars
    /\ UNCHANGED svars
    /\ UNCHANGED vvars
    /\ UNCHANGED tvars

\* select!: cancel.cancelled() => break
Shutdown ==
    /\ mpc = "sleep"
    /\ mgrGuard # "poll"
    /\ cancelled
    /\ mpc' = "stopped"
    /\ UNCHANGED << cancelled, messengers, polls, pending, cur, conversations,
                    messages, loopvars, ret, errlog, msgNo, outbox >>
    /\ UNCHANGED lockvars
    /\ UNCHANGED gvars
    /\ UNCHANGED svars
    /\ UNCHANGED vvars
    /\ UNCHANGED tvars

\* select!: the sleep elapsed; messenger_mgr.lock().await.  At most n poll
\* cycles are run.
PollLockUpTo(n) ==
    /\ mpc = "sleep"
    /\ polls < n
    /\ mgrGuard = "none"
    /\ mgrGuard' = "poll"
    /\ UNCHANGED storeGuard
    /\ UNCHANGED << cancelled, messengers, mpc, polls, pending, cur, conversations,
                    messages, loopvars, ret, errlog, msgNo, outbox >>
    /\ UNCHANGED gvars
    /\ UNCHANGED svars
    /\ UNCHANGED vvars
    /\ UNCHANGED tvars

PollLock == PollLockUpTo(MaxPolls)

\* select!: the sleep elapsed; all messengers are polled under the manager
\* lock, each receive_messages() returning one of results.
PollFrom(results) ==
    /\ mpc = "sleep"
    /\ mgrGuard = "poll"
    /\ \E rs \in [1..Len(messengers) -> results] :
          /\ pending' = poll_all_messengers(rs, 1)
          /\ errlog' = errlog \o poll_errors(rs)
    /\ polls' = polls + 1
    /\ mpc' = "next"
    /\ UNCHANGED << cancelled, messengers, cur, conversations, messages, loopvars,
                    ret, msgNo, outbox >>
    /\ mgrGuard' = "none"
    /\ UNCHANGED storeGuard
    /\ UNCHANGED gvars
    /\ UNCHANGED svars
    /\ UNCHANGED vvars
    /\ UNCHANGED tvars

Poll == PollFrom(ReceiveResults)

\* for (messenger_type, msg) in messages: the cycle's messages are all done.
CycleDone ==
    /\ mpc = "next"
    /\ pending = << >>
    /\ mpc' = "sleep"
    /\ UNCHANGED << cancelled, messengers, polls, pending, cur, conversations,
                    messages, loopvars, ret, errlog, msgNo, outbox >>
    /\ UNCHANGED lockvars
    /\ UNCHANGED gvars
    /\ UNCHANGED svars
    /\ UNCHANGED vvars
    /\ UNCHANGED tvars

\* conversations.lock().await before the history of the chat is cloned.
SnapshotLock ==
    /\ mpc = "next"
    /\ pending # << >>
    /\ storeGuard = "none"
    /\ storeGuard' = "snapshot"
    /\ UNCHANGED mgrGuard
    /\ UNCHANGED << cancelled, messengers, mpc, polls, pending, cur, conversations,
                    messages, loopvars, ret, errlog, msgNo, outbox >>
    /\ UNCHANGED gvars
    /\ UNCHANGED svars
    /\ UNCHANGED vvars
    /\ UNCHANGED tvars

\* Faulty variant of ProcessStart: the guard taken for the snapshot is kept.
ProcessStartKeepingGuard ==
    /\ mpc = "next"
    /\ storeGuard = "snapshot"
    /\ pending # << >>
    /\ LET item == Head(pending)
           key == ConvKey(item.mtype, item.msg)
           store == EntryOrInsert(conversations, key)
           prompt == build_messenger_system_prompt(item.mtype, item.msg)
       IN  /\ cur' = Some(item)
           /\ conversations' = store
           /\ messages' = Append(WithSystemPrompt(store[key], prompt),
                                 ChatMessage("user", item.msg.content))
    /\ pending' = Tail(pending)
    /\ msgNo' = msgNo + 1
    /\ round' = 0
    /\ final_response' = << >>
    /\ model_resp' = None
    /\ started' = << >>
    /\ running' = {}
    /\ tool_results' = << >>
    /\ toolRan' = FALSE
    /\ loopExit' = "none"
    /\ ret' = None
    /\ errlog' = << >>
    /\ mpc' = "loop"
    /\ UNCHANGED << cancelled, messengers, polls, outbox >>
    /\ storeGuard' = storeGuard
    /\ UNCHANGED mgrGuard
    /\ UNCHANGED gvars
    /\ UNCHANGED svars
    /\ UNCHANGED vvars
    /\ UNCHANGED tvars

\* process_incoming_message up to the tool loop: the history of the chat is
\* cloned under the store lock, the system prompt put at index 0 and the
\* user message appended.
ProcessStart ==
    /\ mpc = "next"
    /\ storeGuard = "snapshot"
    /\ pending # << >>
    /\ LET item == Head(pending)
           key == ConvKey(item.mtype, item.msg)
           store == EntryOrInsert(conversations, key)
           prompt == build_messenger_system_prompt(item.mtype, item.msg)
       IN  /\ cur' = Some(item)
           /\ conversations' = store
           /\ messages' = Append(WithSystemPrompt(store[key], prompt),
                                 ChatMessage("user", item.msg.content))
    /\ pending' = Tail(pending)
    /\ msgNo' = msgNo + 1
    /\ round' = 0
    /\ final_response' = << >>
    /\ model_resp' = None
    /\ started' = << >>
    /\ running' = {}
    /\ tool_results' = << >>
    /\ toolRan' = FALSE
    /\ loopExit' = "none"
    /\ ret' = None
    /\ errlog' = << >>
    /\ mpc' = "loop"
    /\ UNCHANGED << cancelled, messengers, polls, outbox >>
    /\ storeGuard' = "none"
    /\ UNCHANGED mgrGuard
    /\ UNCHANGED gvars
    /\ UNCHANGED svars
    /\ UNCHANGED vvars
    /\ UNCHANGED tvars

\* Faulty variant of ProviderFailed: the loop is left as by a break.
ProviderFailedBreaking ==
    /\ loopExit' = "error"
    /\ errlog' = << "Model error" >>
    /\ mpc' = "store"
    /\ UNCHANGED << final_response, model_resp, started, running, tool_results,
                    toolRan, ret >>

\* Faulty variant of ProviderFailed: the failed call is retried.
ProviderFailedRetried ==
    /\ loopExit' = "error"
    /\ errlog' = << "Model error" >>
    /\ mpc' = "loop"
    /\ UNCHANGED << final_response, model_resp, started, running, tool_results,
                    toolRan, ret >>

\* Err(err) => { eprintln!("[messenger] Model error: {}", err); return Err(err); }
ProviderFailed ==
    /\ loopExit' = "error"
    /\ ret' = Some(Err(<< "provider error" >>))
    /\ errlog' = << "Model error" >>
    /\ mpc' = "returned"
    /\ UNCHANGED << final_response, model_resp, started, running, tool_results,
                    toolRan >>

\* Faulty variant of Accumulate: the text is put before the reply so far.
AccumulatePrepending(reply, text) == IF text # << >> THEN text \o reply ELSE reply

\* if !model_resp.text.is_empty() { final_response.push_str(&model_resp.text) }
Accumulate(reply, text) == IF text # << >> THEN reply \o text ELSE reply

\* Faulty variant of LoopBreaks: the loop is left only with some text.
LoopBreaksOnlyWithText(r) == r.tool_calls = << >> /\ r.text # << >>

\* if model_resp.tool_calls.is_empty() { break; }
LoopBreaks(r) == r.tool_calls = << >>

\* One provider call and what the loop does with its result, up to the first
\* tool call or the end of the loop; the provider answers with a failure or
\* with one of responses.
ProviderCallFrom(responses) ==
    /\ mpc = "loop"
    /\ LoopContinues(round)
    /\ round' = round + 1
    /\ \/ ProviderFailed
       \/ \E r \in responses :
             /\ Len(final_response) + Len(r.text) <= MaxReplyLen
             /\ round < MaxVariedRounds \/ Len(r.tool_calls) <= 1
             /\ model_resp' = Some(r)
             /\ final_response' = Accumulate(final_response, r.text)
             /\ IF LoopBreaks(r)
                THEN /\ mpc' = "store"
                     /\ loopExit' = "break"
                ELSE /\ mpc' = "tools"
                     /\ loopExit' = loopExit
             /\ tool_results' = << >>
             /\ started' = << >>
             /\ UNCHANGED << running, toolRan, ret, errlog >>
    /\ UNCHANGED << cancelled, messengers, polls, pending, cur, conversations,
                    messages, msgNo, outbox >>
    /\ UNCHANGED lockvars
    /\ UNCHANGED gvars
    /\ UNCHANGED svars
    /\ UNCHANGED vvars
    /\ UNCHANGED tvars

ProviderCall == ProviderCallFrom(Responses)

\* The for loop has run MAX_TOOL_ROUNDS iterations and falls through.
LoopExhausted ==
    /\ mpc = "loop"
    /\ ~LoopContinues(round)
    /\ mpc' = "store"
    /\ loopExit' = "cap"
    /\ UNCHANGED << cancelled, messengers, polls, pending, cur, conversations,
                    messages, round, final_response, model_resp, started,
                    running, tool_results, toolRan, ret, errlog, msgNo, outbox >>
    /\ UNCHANGED lockvars
    /\ UNCHANGED gvars
    /\ UNCHANGED svars
    /\ UNCHANGED vvars
    /\ UNCHANGED tvars

\* for tc in &model_resp.tool_calls: the next call is handed to its executor.
ToolStart ==
    /\ mpc = "tools"
    /\ Len(started) < Len(Calls)
    /\ ToolMayStart
    /\ started' = Append(started, Len(started) + 1)
    /\ running' = running \cup { Len(started) + 1 }
    /\ toolRan' = TRUE
    /\ UNCHANGED << cancelled, messengers, mpc, polls, pending, cur,
                    conversations, messages, round, final_response, model_resp,
                    tool_results, loopExit, ret, errlog, msgNo, outbox >>
    /\ UNCHANGED lockvars
    /\ UNCHANGED gvars
    /\ UNCHANGED svars
    /\ UNCHANGED vvars
    /\ UNCHANGED tvars

\* An executing call returns and its ToolCallResult is pushed.
ToolReturn ==
    /\ mpc = "tools"
    /\ \E i \in running :
          /\ \E res \in Dispatch(Calls[i].name) :
                tool_results' = Append(tool_results, ToolCallResult(Calls[i], res))
          /\ running' = running \ {i}
    /\ mpc' = IF Len(tool_results) + 1 = Len(Calls) THEN "append" ELSE "tools"
    /\ UNCHANGED << cancelled, messengers, polls, pending, cur, conversations,
                    messages, round, final_response, model_resp, started,
                    toolRan, loopExit, ret, errlog, msgNo, outbox >>
    /\ UNCHANGED lockvars
    /\ UNCHANGED gvars
    /\ UNCHANGED svars
    /\ UNCHANGED vvars
    /\ UNCHANGED tvars

\* providers::append_tool_round(provider, messages, &model_resp, &tool_results)
\* ends the iteration.
AppendToolRound ==
    /\ mpc = "append"
    /\ messages' = append_tool_round(messages, model_resp[1], tool_results)
    /\ model_resp' = None
    /\ tool_results' = << >>
    /\ started' = << >>
    /\ mpc' = "loop"
    /\ UNCHANGED << cancelled, messengers, polls, pending, cur, conversations,
                    round, final_response, running, toolRan, loopExit,
                    ret, errlog, msgNo, outbox >>
    /\ UNCHANGED lockvars
    /\ UNCHANGED gvars
    /\ UNCHANGED svars
    /\ UNCHANGED vvars
    /\ UNCHANGED tvars

\* conversations.lock().await before the history update.
UpdateLock ==
    /\ mpc = "store"
    /\ storeGuard = "none"
    /\ storeGuard' = "update"
    /\ UNCHANGED mgrGuard
    /\ UNCHANGED << cancelled, messengers, mpc, polls, pending, cur, conversations,
                    messages, loopvars, ret, errlog, msgNo, outbox >>
    /\ UNCHANGED gvars
    /\ UNCHANGED svars
    /\ UNCHANGED vvars
    /\ UNCHANGED tvars

\* Faulty variant of StoreUpdate: the results of the tools that ran are
\* recorded too, without the assistant message that requested them.
StoreUpdateRecordingTools ==
    /\ mpc = "store"
    /\ storeGuard = "update"
    /\ LET item == cur[1]
           key == ConvKey(item.mtype, item.msg)
           store == EntryOrInsert(conversations, key)
           withUser == Append(store[key], ChatMessage("user", item.msg.content))
           withTools == IF toolRan
                        THEN Append(withUser,
                                    [role |-> "tool", content |-> Some(<< "output" >>),
                                     tool_calls |-> None, tool_call_id |-> Some("t1")])
                        ELSE withUser
           withReply == IF final_response # << >>
                        THEN Append(withTools, ChatMessage("assistant", final_response))
                        ELSE withTools
       IN  conversations' = [store EXCEPT ![key] = TrimHistory(withReply)]
    /\ mpc' = "send"
    /\ UNCHANGED << cancelled, messengers, polls, pending, cur, messages, loopvars,
                    ret, errlog, msgNo, outbox >>
    /\ storeGuard' = "none"
    /\ UNCHANGED mgrGuard
    /\ UNCHANGED gvars
    /\ UNCHANGED svars
    /\ UNCHANGED vvars
    /\ UNCHANGED tvars

\* Faulty variant of StoreUpdate: the assistant message is pushed whatever
\* the reply is.
StoreUpdateAlwaysReply ==
    /\ mpc = "store"
    /\ storeGuard = "update"
    /\ LET item == cur[1]
           key == ConvKey(item.mtype, item.msg)
           store == EntryOrInsert(conversations, key)
           withUser == Append(store[key], ChatMessage("user", item.msg.content))
           withReply == Append(withUser, ChatMessage("assistant", final_response))
       IN  conversations' = [store EXCEPT ![key] = TrimHistory(withReply)]
    /\ mpc' = "send"
    /\ UNCHANGED << cancelled, messengers, polls, pending, cur, messages, loopvars,
                    ret, errlog, msgNo, outbox >>
    /\ storeGuard' = "none"
    /\ UNCHANGED mgrGuard
    /\ UNCHANGED gvars
    /\ UNCHANGED svars
    /\ UNCHANGED vvars
    /\ UNCHANGED tvars

\* Faulty variant of StoreUpdate: the guard taken for the update is kept.
StoreUpdateKeepingGuard ==
    /\ mpc = "store"
    /\ storeGuard = "update"
    /\ LET item == cur[1]
           key == ConvKey(item.mtype, item.msg)
           store == EntryOrInsert(conversations, key)
           withUser == Append(store[key], ChatMessage("user", item.msg.content))
           withReply == IF final_response # << >>
                        THEN Append(withUser, ChatMessage("assistant", final_response))
                        ELSE withUser
       IN  conversations' = [store EXCEPT ![key] = TrimHistory(withReply)]
    /\ mpc' = "send"
    /\ UNCHANGED << cancelled, messengers, polls, pending, cur, messages, loopvars,
                    ret, errlog, msgNo, outbox >>
    /\ storeGuard' = storeGuard
    /\ UNCHANGED mgrGuard
    /\ UNCHANGED gvars
    /\ UNCHANGED svars
    /\ UNCHANGED vvars
    /\ UNCHANGED tvars

\* The history of the chat gets the user message and, when the reply is not
\* empty, the assistant message, and is trimmed; all under the store lock.
StoreUpdate ==
    /\ mpc = "store"
    /\ storeGuard = "update"
    /\ LET item == cur[1]
           key == ConvKey(item.mtype, item.msg)
           store == EntryOrInsert(conversations, key)
           withUser == Append(store[key], ChatMessage("user", item.msg.content))
           withReply == IF final_response # << >>
                        THEN Append(withUser, ChatMessage("assistant", final_response))
                        ELSE withUser
       IN  conversations' = [store EXCEPT ![key] = TrimHistory(withReply)]
    /\ mpc' = "send"
    /\ UNCHANGED << cancelled, messengers, polls, pending, cur, messages, loopvars,
                    ret, errlog, msgNo, outbox >>
    /\ storeGuard' = "none"
    /\ UNCHANGED mgrGuard
    /\ UNCHANGED gvars
    /\ UNCHANGED svars
    /\ UNCHANGED vvars
    /\ UNCHANGED tvars

\* messenger_mgr.lock().await before the reply is sent; a reply that is empty
\* or a sentinel takes no lock.
SendLock ==
    /\ mpc = "send"
    /\ ShouldSend(final_response)
    /\ mgrGuard = "none"
    /\ mgrGuard' = "send"
    /\ UNCHANGED storeGuard
    /\ UNCHANGED << cancelled, messengers, mpc, polls, pending, cur, conversations,
                    messages, loopvars, ret, errlog, msgNo, outbox >>
    /\ UNCHANGED gvars
    /\ UNCHANGED svars
    /\ UNCHANGED vvars
    /\ UNCHANGED tvars

\* The reply is sent back via the messenger of the message's type, unless it
\* is empty or a sentinel; then process_incoming_message returns Ok(()).
SendReply ==
    /\ mpc = "send"
    /\ ShouldSend(final_response) => mgrGuard = "send"
    /\ LET item == cur[1]
           via == get_messenger_by_type(messengers, item.mtype)
       IN  IF ShouldSend(final_response) /\ via # None
           THEN \E delivered \in BOOLEAN :
                   outbox' =
                       IF delivered
                       THEN Append(outbox,
                                   [via |-> via[1],
                                    recipient |-> ChannelOrSender(item.msg),
                                    content |-> final_response,
                                    reply_to |-> Some(item.msg.id)])
                       ELSE outbox
           ELSE outbox' = outbox
    /\ ret' = Some(Ok(<< >>))
    /\ mpc' = "returned"
    /\ UNCHANGED << cancelled, messengers, polls, pending, cur, conversations,
                    messages, loopvars, errlog, msgNo >>
    /\ mgrGuard' = IF ShouldSend(final_response) THEN "none" ELSE mgrGuard
    /\ UNCHANGED storeGuard
    /\ UNCHANGED gvars
    /\ UNCHANGED svars
    /\ UNCHANGED vvars
    /\ UNCHANGED tvars

\* if let Err(e) = process_incoming_message(..) { eprintln!(..) }
HandleReturn ==
    /\ mpc = "returned"
    /\ errlog' = IF ret[1].ok THEN errlog
                 ELSE Append(errlog, "Error processing message")
    /\ mpc' = "next"
    /\ UNCHANGED << cancelled, messengers, polls, pending, cur, conversations,
                    messages, loopvars, ret, msgNo, outbox >>
    /\ UNCHANGED lockvars
    /\ UNCHANGED gvars
    /\ UNCHANGED svars
    /\ UNCHANGED vvars
    /\ UNCHANGED tvars

\* ------------------------------------------------------------------------
\* Gateway wire protocol (src/gateway.rs)
\* ------------------------------------------------------------------------

\* Connections a run of the gateway may see.
Conns == { 1, 2 }

\* frames the clients send in one run, over all connections
MaxFrames == 2

\* A frame written to the client: the websocket message kind and, for a text
\* frame, the fields of its JSON object.
TextFrame(type, ok, body) == [ws |-> "Text", type |-> type, ok |-> ok, body |-> body]

HelloFrame == TextFrame("hello", "absent", << "rustyclaw", "settings_dir" >>)

ResponseFrame(text) == TextFrame("response", "true", text)

ErrorFrame(message) == TextFrame("error", "false", message)

PongFrame(payload) == [ws |-> "Pong", type |-> "", ok |-> "absent", body |-> payload]

CloseFrame == [ws |-> "Close", type |-> "", ok |-> "absent", body |-> << >>]

\* Text a client may send: its characters and, when it is a JSON object, the
\* object's fields.
ChatEnvelope(provider) ==
    [type |-> "chat", messages |-> "messages", model |-> "model",
     provider |-> provider, base_url |-> "url", api_key |-> "key"]

ClientTexts ==
    { [text |-> << "ping" >>, json |-> None],
      [text |-> << "{chat anthropic}" >>, json |-> Some(ChatEnvelope("anthropic"))],
      [text |-> << "{chat openai}" >>, json |-> Some(ChatEnvelope("openai"))],
      [text |-> << "{chat without base_url}" >>,
       json |-> Some([type |-> "chat", messages |-> "messages", model |-> "model",
                      provider |-> "anthropic"])],
      [text |-> << "{status}" >>,
       json |-> Some([type |-> "status", messages |-> "messages", model |-> "model",
                      provider |-> "anthropic", base_url |-> "url"])] }

\* What reader.next() yields: a websocket message, a read error, or the end
\* of the stream.
ClientFrames ==
    { [ws |-> "Text", data |-> t] : t \in ClientTexts }
      \cup { [ws |-> "Binary", data |-> [text |-> << "bytes" >>, json |-> None]],
             [ws |-> "Ping", data |-> [text |-> << "p" >>, json |-> None]],
             [ws |-> "Pong", data |-> [text |-> << "p" >>, json |-> None]],
             [ws |-> "Close", data |-> [text |-> << >>, json |-> None]] }

\* serde_json::from_str::<ChatRequest>(text): Some(request) when the text is
\* a JSON object with the fields that ChatRequest requires.
ChatRequestFields == { "type", "messages", "model", "provider", "base_url" }

ParseChatRequest(t) ==
    IF t.json # None /\ ChatRequestFields \subseteq DOMAIN t.json[1]
    THEN Some(t.json[1])
    ELSE None

\* Faulty variant of IsChat: the type of the request is not looked at.
IsChatAnyType(t) == ParseChatRequest(t) # None

\* handle_text_message: TRUE when the frame goes to handle_chat_request.
IsChat(t) ==
    /\ ParseChatRequest(t) # None
    /\ ParseChatRequest(t)[1].type = "chat"

\* What the HTTP exchange with a provider can give: no connection, a status
\* that is not 2xx, a body that is not JSON, or a JSON document.
TextBlock == [type |-> "text", text |-> << "hi" >>]

ToolUseBlock == [type |-> "tool_use", text |-> << >>]

HttpOutcomes ==
    { [kind |-> "unreachable", blocks |-> << >>],
      [kind |-> "status", blocks |-> << >>],
      [kind |-> "not json", blocks |-> << >>] }
      \cup { [kind |-> "json", blocks |-> b] :
                b \in { << >>, << TextBlock >>, << ToolUseBlock >>,
                        << TextBlock, ToolUseBlock >> } }

\* The provider's answer asks for a tool.
RequestsTool(o) ==
    o.kind = "json" /\ \E i \in 1..Len(o.blocks) : o.blocks[i].type = "tool_use"

\* Faulty variant of call_anthropic: the last content block is read.
call_anthropic_last_block(o) ==
    CASE o.kind = "unreachable" -> Err(<< "HTTP request to Anthropic failed" >>)
      [] o.kind = "status" -> Err(<< "Anthropic returned status" >>)
      [] o.kind = "not json" -> Err(<< "Invalid JSON from Anthropic" >>)
      [] OTHER ->
           IF o.blocks # << >> /\ o.blocks[Len(o.blocks)].type = "text"
           THEN Ok(o.blocks[Len(o.blocks)].text)
           ELSE Err(<< "No text content in Anthropic response" >>)

\* call_anthropic: data["content"][0]["text"].as_str()
call_anthropic(o) ==
    CASE o.kind = "unreachable" -> Err(<< "HTTP request to Anthropic failed" >>)
      [] o.kind = "status" -> Err(<< "Anthropic returned status" >>)
      [] o.kind = "not json" -> Err(<< "Invalid JSON from Anthropic" >>)
      [] OTHER ->
           IF o.blocks # << >> /\ o.blocks[1].type = "text"
           THEN Ok(o.blocks[1].text)
           ELSE Err(<< "No text content in Anthropic response" >>)

\* call_google: data["candidates"][0]["content"]["parts"][0]["text"].as_str()
call_google(o) ==
    CASE o.kind = "unreachable" -> Err(<< "HTTP request to Google failed" >>)
      [] o.kind = "status" -> Err(<< "Google returned status" >>)
      [] o.kind = "not json" -> Err(<< "Invalid JSON from Google" >>)
      [] OTHER ->
           IF o.blocks # << >> /\ o.blocks[1].type = "text"
           THEN Ok(o.blocks[1].text)
           ELSE Err(<< "No text content in Google response" >>)

\* call_openai_compatible: data["choices"][0]["message"]["content"].as_str();
\* the blocks stand for the message: its content is the text block, if any
\* comes first, and null when the message only carries tool calls.
call_openai_compatible(o) ==
    CASE o.kind = "unreachable" -> Err(<< "HTTP request to model provider failed" >>)
      [] o.kind = "status" -> Err(<< "Provider returned status" >>)
      [] o.kind = "not json" -> Err(<< "Invalid JSON from provider" >>)
      [] OTHER ->
           IF o.blocks # << >> /\ o.blocks[1].type = "text"
           THEN Ok(o.blocks[1].text)
           ELSE Err(<< "No content in provider response" >>)

\* handle_chat_request: the frame that answers the chat request req when the
\* HTTP exchange gives o.
handle_chat_request(req, o) ==
    LET result == IF req.provider = "anthropic" THEN call_anthropic(o)
                  ELSE IF req.provider = "google" THEN call_google(o)
                  ELSE call_openai_compatible(o)
    IN  IF result.ok THEN ResponseFrame(result.text) ELSE ErrorFrame(result.text)

\* Faulty variant of EchoFrame: the text is sent back as an error.
EchoFrameAsError(t) == ErrorFrame(t.text)

\* The fall-back of handle_text_message: the text is echoed.
EchoFrame(t) == ResponseFrame(t.text)

\* Faulty variant of BinaryErrorFrame: the refusal is sent as a response.
BinaryErrorFrameOk == ResponseFrame(<< "Binary frames are not supported" >>)

\* The answer to a binary frame.
BinaryErrorFrame == ErrorFrame(<< "Binary frames are not supported" >>)

\* ------------------------------------------------------------------------
\* run_gateway and handle_connection
\* ------------------------------------------------------------------------

GInit ==
    /\ gcancel = FALSE
    /\ gwpc = "accepting"
    /\ nframes = 0
    /\ gpc = [c \in Conns |-> "none"]
    /\ sent = [c \in Conns |-> << >>]
    /\ received = [c \in Conns |-> << >>]
    /\ gresp = [c \in Conns |-> None]
    /\ gout = [c \in Conns |-> None]
    /\ gcalls = [c \in Conns |-> 0]

\* The connection the listener hands out next.
NextConn == CHOOSE c \in Conns : gpc[c] = "none" /\ \A d \in Conns : gpc[d] = "none" => c <= d

\* The root token is triggered.
GatewayCancel ==
    /\ ~gcancel
    /\ gcancel' = TRUE
    /\ UNCHANGED << gwpc, nframes, gpc, sent, received, gresp, gout, gcalls >>
    /\ UNCHANGED mvars
    /\ UNCHANGED svars
    /\ UNCHANGED vvars
    /\ UNCHANGED tvars

\* run_gateway, select!: cancel.cancelled() => break
AcceptLoopCancelled ==
    /\ gwpc = "accepting"
    /\ gcancel
    /\ gwpc' = "stopped"
    /\ UNCHANGED << gcancel, nframes, gpc, sent, received, gresp, gout, gcalls >>
    /\ UNCHANGED mvars
    /\ UNCHANGED svars
    /\ UNCHANGED vvars
    /\ UNCHANGED tvars

\* run_gateway, select!: accepted = listener.accept() => { accepted?; spawn }
Accept ==
    /\ gwpc = "accepting"
    /\ \E c \in Conns : gpc[c] = "none"
    /\ \E accepted \in BOOLEAN :
          IF accepted
          THEN /\ gpc' = [gpc EXCEPT ![NextConn] = "handshake"]
               /\ gwpc' = gwpc
          ELSE /\ gwpc' = "failed"
               /\ gpc' = gpc
    /\ UNCHANGED << gcancel, nframes, sent, received, gresp, gout, gcalls >>
    /\ UNCHANGED mvars
    /\ UNCHANGED svars
    /\ UNCHANGED vvars
    /\ UNCHANGED tvars

\* accept_async(stream).await.context("WebSocket handshake failed")?
Handshake(c) ==
    /\ gpc[c] = "handshake"
    /\ \E done \in BOOLEAN :
          gpc' = [gpc EXCEPT ![c] = IF done THEN "hello" ELSE "failed"]
    /\ UNCHANGED << gcancel, gwpc, nframes, sent, received, gresp, gout, gcalls >>
    /\ UNCHANGED mvars
    /\ UNCHANGED svars
    /\ UNCHANGED vvars
    /\ UNCHANGED tvars

\* Faulty variant of SendHello: the loop is entered without the hello frame.
SendHelloSkipped(c) ==
    /\ gpc[c] = "hello"
    /\ gpc' = [gpc EXCEPT ![c] = "select"]
    /\ UNCHANGED << gcancel, gwpc, nframes, sent, received, gresp, gout, gcalls >>
    /\ UNCHANGED mvars
    /\ UNCHANGED svars
    /\ UNCHANGED vvars
    /\ UNCHANGED tvars

\* writer.send(hello).await.context("Failed to send hello message")?
SendHello(c) ==
    /\ gpc[c] = "hello"
    /\ \E delivered \in BOOLEAN :
          IF delivered
          THEN /\ sent' = [sent EXCEPT ![c] = Append(@, HelloFrame)]
               /\ gpc' = [gpc EXCEPT ![c] = "select"]
          ELSE /\ sent' = sent
               /\ gpc' = [gpc EXCEPT ![c] = "failed"]
    /\ UNCHANGED << gcancel, gwpc, nframes, received, gresp, gout, gcalls >>
    /\ UNCHANGED mvars
    /\ UNCHANGED svars
    /\ UNCHANGED vvars
    /\ UNCHANGED tvars

\* handle_connection, select!: cancel.cancelled() => { send Close; break }
\* (the child token is cancelled with the root token)
SessionCancelled(c) ==
    /\ gpc[c] = "select"
    /\ gcancel
    /\ \E delivered \in BOOLEAN :
          sent' = [sent EXCEPT ![c] = IF delivered THEN Append(@, CloseFrame) ELSE @]
    /\ gpc' = [gpc EXCEPT ![c] = "closed"]
    /\ UNCHANGED << gcancel, gwpc, nframes, received, gresp, gout, gcalls >>
    /\ UNCHANGED mvars
    /\ UNCHANGED svars
    /\ UNCHANGED vvars
    /\ UNCHANGED tvars

\* handle_connection, select!: msg = reader.next() => the stream ended (None)
\* or failed (Some(Err(e)) => return Err)
ReadEnd(c) ==
    /\ gpc[c] = "select"
    /\ \E failed \in BOOLEAN :
          gpc' = [gpc EXCEPT ![c] = IF failed THEN "failed" ELSE "closed"]
    /\ UNCHANGED << gcancel, gwpc, nframes, sent, received, gresp, gout, gcalls >>
    /\ UNCHANGED mvars
    /\ UNCHANGED svars
    /\ UNCHANGED vvars
    /\ UNCHANGED tvars

\* Faulty variant of ReadFrame: a frame is also read while the reply to the
\* previous one waits to be written.
ReadFrameWhileBusy(c) ==
    /\ gpc[c] \in { "select", "send" }
    /\ nframes < MaxFrames
    /\ nframes' = nframes + 1
    /\ \E m \in ClientFrames :
          /\ received' = [received EXCEPT ![c] = Append(@, m)]
          /\ CASE m.ws = "Text" /\ IsChat(m.data) ->
                    \* handle_chat_request awaits the provider
                    /\ gpc' = [gpc EXCEPT ![c] = "provider"]
                    /\ gresp' = [gresp EXCEPT ![c] = None]
               [] m.ws = "Text" /\ ~IsChat(m.data) ->
                    /\ gpc' = [gpc EXCEPT ![c] = "send"]
                    /\ gresp' = [gresp EXCEPT ![c] = Some(EchoFrame(m.data))]
               [] m.ws = "Binary" ->
                    /\ gpc' = [gpc EXCEPT ![c] = "send"]
                    /\ gresp' = [gresp EXCEPT ![c] = Some(BinaryErrorFrame)]
               [] m.ws = "Ping" ->
                    /\ gpc' = [gpc EXCEPT ![c] = "send"]
                    /\ gresp' = [gresp EXCEPT ![c] = Some(PongFrame(m.data.text))]
               [] m.ws = "Close" ->
                    /\ gpc' = [gpc EXCEPT ![c] = "closed"]
                    /\ gresp' = [gresp EXCEPT ![c] = None]
               [] OTHER ->
                    /\ gpc' = gpc
                    /\ gresp' = [gresp EXCEPT ![c] = None]
    /\ gout' = [gout EXCEPT ![c] = None]
    /\ gcalls' = [gcalls EXCEPT ![c] = 0]
    /\ UNCHANGED << gcancel, gwpc, sent >>
    /\ UNCHANGED mvars
    /\ UNCHANGED svars
    /\ UNCHANGED vvars
    /\ UNCHANGED tvars

\* handle_connection, select!: msg = reader.next() => Some(Ok(message)); the
\* match on the message up to its first await.
ReadFrame(c) ==
    /\ gpc[c] = "select"
    /\ nframes < MaxFrames
    /\ nframes' = nframes + 1
    /\ \E m \in ClientFrames :
          /\ received' = [received EXCEPT ![c] = Append(@, m)]
          /\ CASE m.ws = "Text" /\ IsChat(m.data) ->
                    \* handle_chat_request awaits the provider
                    /\ gpc' = [gpc EXCEPT ![c] = "provider"]
                    /\ gresp' = [gresp EXCEPT ![c] = None]
               [] m.ws = "Text" /\ ~IsChat(m.data) ->
                    /\ gpc' = [gpc EXCEPT ![c] = "send"]
                    /\ gresp' = [gresp EXCEPT ![c] = Some(EchoFrame(m.data))]
               [] m.ws = "Binary" ->
                    /\ gpc' = [gpc EXCEPT ![c] = "send"]
                    /\ gresp' = [gresp EXCEPT ![c] = Some(BinaryErrorFrame)]
               [] m.ws = "Ping" ->
                    /\ gpc' = [gpc EXCEPT ![c] = "send"]
                    /\ gresp' = [gresp EXCEPT ![c] = Some(PongFrame(m.data.text))]
               [] m.ws = "Close" ->
                    /\ gpc' = [gpc EXCEPT ![c] = "closed"]
                    /\ gresp' = [gresp EXCEPT ![c] = None]
               [] OTHER ->
                    /\ gpc' = gpc
                    /\ gresp' = [gresp EXCEPT ![c] = None]
    /\ gout' = [gout EXCEPT ![c] = None]
    /\ gcalls' = [gcalls EXCEPT ![c] = 0]
    /\ UNCHANGED << gcancel, gwpc, sent >>
    /\ UNCHANGED mvars
    /\ UNCHANGED svars
    /\ UNCHANGED vvars
    /\ UNCHANGED tvars

\* handle_chat_request: the one call of the provider returns and the frame
\* that answers the request is built.
ChatProviderReply(c) ==
    /\ gpc[c] = "provider"
    /\ \E o \in HttpOutcomes :
          LET m == received[c][Len(received[c])]
              req == ParseChatRequest(m.data)[1]
          IN  /\ gout' = [gout EXCEPT ![c] = Some(o)]
              /\ gresp' = [gresp EXCEPT ![c] = Some(handle_chat_request(req, o))]
    /\ gcalls' = [gcalls EXCEPT ![c] = @ + 1]
    /\ gpc' = [gpc EXCEPT ![c] = "send"]
    /\ UNCHANGED << gcancel, gwpc, nframes, sent, received >>
    /\ UNCHANGED mvars
    /\ UNCHANGED svars
    /\ UNCHANGED vvars
    /\ UNCHANGED tvars

\* Faulty variant of SendFrame: the session ends after an error frame.
SendFrameClosingOnError(c) ==
    /\ gpc[c] = "send"
    /\ \E delivered \in BOOLEAN :
          IF delivered
          THEN /\ sent' = [sent EXCEPT ![c] = Append(@, gresp[c][1])]
               /\ gpc' = [gpc EXCEPT ![c] =
                             IF gresp[c][1].type = "error" THEN "closed" ELSE "select"]
          ELSE /\ sent' = sent
               /\ gpc' = [gpc EXCEPT ![c] = "failed"]
    /\ gresp' = [gresp EXCEPT ![c] = None]
    /\ UNCHANGED << gcancel, gwpc, nframes, received, gout, gcalls >>
    /\ UNCHANGED mvars
    /\ UNCHANGED svars
    /\ UNCHANGED vvars
    /\ UNCHANGED tvars

\* writer.send(..).await?: the frame is written and the loop goes on, or the
\* write fails and handle_connection returns the error.
SendFrame(c) ==
    /\ gpc[c] = "send"
    /\ \E delivered \in BOOLEAN :
          IF delivered
          THEN /\ sent' = [sent EXCEPT ![c] = Append(@, gresp[c][1])]
               /\ gpc' = [gpc EXCEPT ![c] = "select"]
          ELSE /\ sent' = sent
               /\ gpc' = [gpc EXCEPT ![c] = "failed"]
    /\ gresp' = [gresp EXCEPT ![c] = None]
    /\ UNCHANGED << gcancel, gwpc, nframes, received, gout, gcalls >>
    /\ UNCHANGED mvars
    /\ UNCHANGED svars
    /\ UNCHANGED vvars
    /\ UNCHANGED tvars

\* ------------------------------------------------------------------------
\* The one-shot sender (src/main.rs, send_command_via_gateway)
\* ------------------------------------------------------------------------

\* The connection the gateway gives to the sender, the only client of
\* SpecSender.
SenderConn == 1

\* args.command.join(" ").trim(): any text that is not empty.
SenderCommands == ClientTexts

SInit ==
    /\ cpc = "idle"
    /\ cmd = None
    /\ csent = FALSE
    /\ cread = 0
    /\ cret = None

\* main returns Result<()>: the process exits with 0 for Ok(()) and with 1
\* for an Err, whichever error it is.  result is what
\* send_command_via_gateway returned; its Ok text is printed.
main_exit_code(result) == IF result.ok THEN 0 ELSE 1

\* Url::parse(gateway_url)?; connect_async(url) begins.
SenderConnect ==
    /\ cpc = "idle"
    /\ \E valid \in BOOLEAN, t \in SenderCommands :
          IF valid
          THEN /\ cpc' = "connecting"
               /\ cmd' = Some(t)
               /\ cret' = cret
          ELSE /\ cpc' = "done"
               /\ cmd' = Some(t)
               /\ cret' = Some(Err(<< "Invalid gateway URL" >>))
    /\ UNCHANGED << csent, cread >>
    /\ UNCHANGED << mvars, gvars >>
    /\ UNCHANGED vvars
    /\ UNCHANGED tvars

\* The listener accepts the sender's connection.
SenderAccepted ==
    /\ cpc = "connecting"
    /\ gpc[SenderConn] = "none"
    /\ Accept

\* connect_async(url).await.context("Failed to connect to gateway")?: the
\* websocket handshake with the gateway is over, or it failed.
SenderConnected ==
    /\ cpc = "connecting"
    /\ \/ /\ gpc[SenderConn] \notin { "none", "handshake", "failed" }
          /\ cpc' = "send"
          /\ cret' = cret
       \/ /\ gwpc = "failed" \/ gpc[SenderConn] = "failed"
          /\ cpc' = "done"
          /\ cret' = Some(Err(<< "Failed to connect to gateway" >>))
    /\ UNCHANGED << cmd, csent, cread >>
    /\ UNCHANGED << mvars, gvars >>
    /\ UNCHANGED vvars
    /\ UNCHANGED tvars

\* writer.send(Message::Text(command)).await.context("Failed to send command")?
SenderSend ==
    /\ cpc = "send"
    /\ \E delivered \in BOOLEAN :
          IF delivered
          THEN /\ csent' = TRUE
               /\ cpc' = "read"
               /\ cret' = cret
          ELSE /\ csent' = csent
               /\ cpc' = "done"
               /\ cret' = Some(Err(<< "Failed to send command" >>))
    /\ UNCHANGED << cmd, cread >>
    /\ UNCHANGED << mvars, gvars >>
    /\ UNCHANGED vvars
    /\ UNCHANGED tvars

\* The gateway's reader.next() yields the command the sender wrote.
SenderCommandRead ==
    /\ csent
    /\ received[SenderConn] = << >>
    /\ ReadFrame(SenderConn)
    /\ received'[SenderConn] = << [ws |-> "Text", data |-> cmd[1]] >>

\* while let Some(message) = reader.next().await: the next frame the gateway
\* wrote; the first text frame is returned.
SenderRead ==
    /\ cpc = "read"
    /\ cread < Len(sent[SenderConn])
    /\ cread' = cread + 1
    /\ LET f == sent[SenderConn][cread + 1]
       IN  IF f.ws = "Text"
           THEN /\ cret' = Some([ok |-> TRUE, text |-> f])
                /\ cpc' = "done"
           ELSE /\ cret' = cret
                /\ cpc' = cpc
    /\ UNCHANGED << cmd, csent >>
    /\ UNCHANGED << mvars, gvars >>
    /\ UNCHANGED vvars
    /\ UNCHANGED tvars

\* reader.next() yields an error ("Gateway read error") or None ("Gateway
\* closed without responding"): the gateway's side of the stream is over.
SenderStreamEnd ==
    /\ cpc = "read"
    /\ cread = Len(sent[SenderConn])
    /\ gpc[SenderConn] \in { "closed", "failed" }
    /\ \E failed \in BOOLEAN :
          cret' = Some(Err(IF failed THEN << "Gateway read error" >>
                           ELSE << "Gateway closed without responding" >>))
    /\ cpc' = "done"
    /\ UNCHANGED << cmd, csent, cread >>
    /\ UNCHANGED << mvars, gvars >>
    /\ UNCHANGED vvars
    /\ UNCHANGED tvars

\* The sender has exited: the gateway's reader.next() sees the stream end.
SenderGone ==
    /\ cpc = "done"
    /\ csent => received[SenderConn] # << >>
    /\ ReadEnd(SenderConn)

\* ------------------------------------------------------------------------
\* Stored conversations near the cap (process_incoming_message, history update)
\* ------------------------------------------------------------------------

\* how far below the cap the stored conversations of SpecHistory begin
MaxShortfall == 3

\* A conversation as the store holds it after n entries were pushed: a user
\* message for each incoming message and, when withReplies, the assistant
\* message after it.  Each entry has a content of its own.  The store never
\* holds a system message: the system prompt only goes into the request's
\* copy of the history.
StoredHistory(n, withReplies) ==
    [i \in 1..n |->
        ChatMessage(IF withReplies /\ i % 2 = 0 THEN "assistant" ELSE "user",
                    << "entry", ToString(i) >>)]

StoredHistories ==
    { StoredHistory(n, w) :
         n \in (MAX_HISTORY_MESSAGES - MaxShortfall)..MAX_HISTORY_MESSAGES,
         w \in BOOLEAN }

\* Messenger configurations: one messenger, or several with two of one type.
MessengerConfigs ==
    { << [name |-> "tg", mtype |-> "telegram"] >>,
      << [name |-> "dc", mtype |-> "discord"], [name |-> "tg", mtype |-> "telegram"],
         [name |-> "tg2", mtype |-> "telegram"] >> }

\* A message that came in on a channel.
ChannelMessages ==
    { [id |-> "m2", sender |-> "bob", content |-> << "yo" >>, channel |-> Some("room")] }

\* Final replies: empty, plain, the sentinels bare and within whitespace, a
\* text that only contains a sentinel, and whitespace alone.
FinalReplies ==
    { << >>, << "a" >>, << "NO_REPLY" >>, << " ", "NO_REPLY", "\n" >>,
      << "HEARTBEAT_OK" >>, << "\n", "HEARTBEAT_OK" >>, << "NO_REPLY", "a" >>, << " " >> }

\* process_incoming_message has left the tool loop, at its first response or
\* at the second after one round of tools, for a message of a chat whose
\* conversation is one of StoredHistories.
HInit ==
    /\ cancelled = FALSE
    /\ messengers \in MessengerConfigs
    /\ mpc = "store"
    /\ polls = 1
    /\ pending = << >>
    /\ \E i \in 1..Len(messengers), msg \in IncomingMessages \cup ChannelMessages,
          h \in StoredHistories, text \in FinalReplies :
          /\ cur = Some([mtype |-> messengers[i].mtype, msg |-> msg,
                         origin |-> messengers[i].name])
          /\ conversations = [k \in { ConvKey(messengers[i].mtype, msg) } |-> h]
          /\ toolRan \in BOOLEAN
          /\ LET first == Append(WithSystemPrompt(
                                    h, build_messenger_system_prompt(
                                          messengers[i].mtype, msg)),
                                 ChatMessage("user", msg.content))
             IN  messages =
                    IF toolRan
                    THEN append_tool_round(
                            first, [text |-> << >>, tool_calls |-> << "call" >>],
                            << "result" >>)
                    ELSE first
          /\ final_response = text
          /\ model_resp = Some([text |-> text, tool_calls |-> << >>])
    /\ round = IF toolRan THEN 2 ELSE 1
    /\ started = << >>
    /\ running = {}
    /\ tool_results = << >>
    /\ loopExit = "break"
    /\ ret = None
    /\ errlog = << >>
    /\ msgNo = 1
    /\ outbox = << >>
    /\ storeGuard = "none"
    /\ mgrGuard = "none"

\* ------------------------------------------------------------------------
\* The gateway tool (src/tools/gateway_tools.rs)
\* ------------------------------------------------------------------------

\* serde_json::Value: null, a number, or an object.  The members of an object
\* are kept in the order of their keys, as serde_json's Map keeps them.
JNull == [kind |-> "null", n |-> 0, members |-> << >>]

JNum(i) == [kind |-> "num", n |-> i, members |-> << >>]

JObj(ms) == [kind |-> "obj", n |-> 0, members |-> ms]

\* The keys of the objects, and their order.
Keys == { "a", "b" }

KeyOrder(k) == IF k = "a" THEN 1 ELSE 2

\* Map::contains_key
HasKey(ms, k) == \E i \in 1..Len(ms) : ms[i].k = k

\* Map::get, for a key that is there
ValueAt(ms, k) == ms[CHOOSE i \in 1..Len(ms) : ms[i].k = k].v

\* Map::remove
RemoveKey(ms, k) == SelectSeq(ms, LAMBDA m : m.k # k)

\* Map::insert, for a key that is not there
InsertKey(ms, k, v) ==
    SelectSeq(ms, LAMBDA m : KeyOrder(m.k) < KeyOrder(k))
       \o << [k |-> k, v |-> v] >>
       \o SelectSeq(ms, LAMBDA m : KeyOrder(m.k) > KeyOrder(k))

RECURSIVE merge_json(_, _)
RECURSIVE MergeMembers(_, _, _)
\* for (key, patch_val) in patch_map, from member i on: a null removes the
\* key, a key of the base is merged, a new key is inserted as it is.
MergeMembers(base_map, patch_map, i) ==
    IF i > Len(patch_map) THEN base_map
    ELSE LET key == patch_map[i].k
             patch_val == patch_map[i].v
         IN  MergeMembers(
                IF patch_val.kind = "null" THEN RemoveKey(base_map, key)
                ELSE IF HasKey(base_map, key)
                THEN InsertKey(RemoveKey(base_map, key), key,
                               merge_json(ValueAt(base_map, key), patch_val))
                ELSE InsertKey(base_map, key, patch_val),
                patch_map, i + 1)

\* fn merge_json(base: Value, patch: Value) -> Value
merge_json(b, p) ==
    IF b.kind = "obj" /\ p.kind = "obj"
    THEN JObj(MergeMembers(b.members, p.members, 1))
    ELSE p

\* The member lists over the values of V: each key absent or with one of V.
MembersOver(V) ==
    { << >> }
       \cup { << [k |-> key, v |-> x] >> : key \in Keys, x \in V }
       \cup { << [k |-> "a", v |-> x], [k |-> "b", v |-> y] >> : x \in V, y \in V }

JsonAtoms == { JNull, JNum(1) }

\* Atoms and objects of atoms.
JsonFlat == JsonAtoms \cup { JObj(ms) : ms \in MembersOver(JsonAtoms) }

\* Values with objects nested once.
JsonValues == JsonAtoms \cup { JObj(ms) : ms \in MembersOver(JsonFlat) }

\* Texts are sequences of characters.  serde_json::to_string: no whitespace.
RECURSIVE Compact(_)
RECURSIVE CompactMembers(_, _)
CompactMembers(ms, i) ==
    IF i > Len(ms) THEN << >>
    ELSE (IF i > 1 THEN << "," >> ELSE << >>)
            \o << "\"", ms[i].k, "\"", ":" >> \o Compact(ms[i].v)
            \o CompactMembers(ms, i + 1)

Compact(v) ==
    IF v.kind = "null" THEN << "n", "u", "l", "l" >>
    ELSE IF v.kind = "num" THEN << ToString(v.n) >>
    ELSE << "{" >> \o CompactMembers(v.members, 1) \o << "}" >>

\* two spaces per level
Indent(depth) == [i \in 1..(2 * depth) |-> " "]

\* serde_json::to_string_pretty: an empty object is {}, the members of
\* another one are on lines of their own, indented, with ": " after the key.
RECURSIVE Pretty(_, _)
RECURSIVE PrettyMembers(_, _, _)
PrettyMembers(ms, i, depth) ==
    IF i > Len(ms) THEN << >>
    ELSE (IF i > 1 THEN << ",", "\n" >> ELSE << >>)
            \o Indent(depth) \o << "\"", ms[i].k, "\"", ":", " " >>
            \o Pretty(ms[i].v, depth)
            \o PrettyMembers(ms, i + 1, depth)

Pretty(v, depth) ==
    IF v.kind # "obj" \/ v.members = << >> THEN Compact(v)
    ELSE << "{", "\n" >> \o PrettyMembers(v.members, 1, depth + 1)
            \o << "\n" >> \o Indent(depth) \o << "}" >>

\* A text that is not JSON.
NotJson == << "{", "a" >>

\* serde_json::from_str on the texts of this model, which are NotJson and the
\* two forms of the values of JsonFlat: Some(value), or None for a text that
\* does not parse.
from_str(text) ==
    LET vs == { v \in JsonFlat : text = Compact(v) \/ text = Pretty(v, 0) }
    IN  IF vs = {} THEN None ELSE Some(CHOOSE v \in vs : TRUE)

\* b as usize, for the characters of these texts
ByteOf(c) ==
    CASE c = "{" -> 123 [] c = "}" -> 125 [] c = "\"" -> 34 [] c = ":" -> 58
      [] c = "," -> 44 [] c = " " -> 32 [] c = "\n" -> 10 [] c = "a" -> 97
      [] c = "b" -> 98 [] c = "n" -> 110 [] c = "u" -> 117 [] c = "l" -> 108
      [] c = "1" -> 49

RECURSIVE ByteSum(_)
\* content.bytes().map(|b| b as usize).sum::<usize>()
ByteSum(text) == IF text = << >> THEN 0 ELSE ByteOf(Head(text)) + ByteSum(Tail(text))

HexDigit(d) ==
    CASE d = 0 -> "0" [] d = 1 -> "1" [] d = 2 -> "2" [] d = 3 -> "3" [] d = 4 -> "4"
      [] d = 5 -> "5" [] d = 6 -> "6" [] d = 7 -> "7" [] d = 8 -> "8" [] d = 9 -> "9"
      [] d = 10 -> "a" [] d = 11 -> "b" [] d = 12 -> "c" [] d = 13 -> "d"
      [] d = 14 -> "e" [] d = 15 -> "f"

RECURSIVE Hex(_)
\* format!("{:x}", n)
Hex(n) == IF n < 16 THEN << HexDigit(n) >> ELSE Hex(n \div 16) \o << HexDigit(n % 16) >>

\* The hash config.get returns for a config file of this content.  The sum
\* of a text of this model is far from the width of usize.
ConfigHash(content) == Hex(Len(content) * 31 + ByteSum(content))

\* The texts of a config file or of a raw argument.
ConfigTexts == { Compact(v) : v \in JsonFlat } \cup { NotJson }

\* The hashes a caller may hold: the one config.get returns for the file as
\* it is, and one it returned for an earlier config, the empty object.
HeldHashes ==
    { ConfigHash(<< "{", "}" >>) }
       \cup (IF cfgFile = None THEN {} ELSE { ConfigHash(cfgFile[1]) })

\* The arguments of a call: the action, raw and baseHash.
GatewayArgs ==
    [ action : { "restart", "config.get" }, raw : { None }, baseHash : { None } ]
    \cup
    [ action : { "config.apply", "config.patch" },
      raw : { None } \cup { Some(t) : t \in ConfigTexts },
      baseHash : { None } \cup { Some(h) : h \in HeldHashes } ]

\* "config.get"
ConfigGet ==
    IF cfgFile = None
    THEN Ok(<< "config", << "{", "}" >>, "hash", << >>, "exists", FALSE >>)
    ELSE Ok(<< "config", cfgFile[1], "hash", ConfigHash(cfgFile[1]), "exists", TRUE >>)

\* "config.apply": what is returned and the file afterwards
ConfigApply(args) ==
    IF args.raw = None
    THEN [ret |-> Err(<< "Missing raw config for config.apply" >>), file |-> cfgFile]
    ELSE IF from_str(args.raw[1]) = None
    THEN [ret |-> Err(<< "Invalid JSON config" >>), file |-> cfgFile]
    ELSE [ret |-> Ok(<< "Config written" >>), file |-> Some(args.raw[1])]

\* "config.patch": what is returned and the file afterwards
ConfigPatch(args) ==
    IF args.raw = None
    THEN [ret |-> Err(<< "Missing raw patch for config.patch" >>), file |-> cfgFile]
    ELSE IF from_str(args.raw[1]) = None
    THEN [ret |-> Err(<< "Invalid JSON patch" >>), file |-> cfgFile]
    ELSE IF cfgFile # None /\ from_str(cfgFile[1]) = None
    THEN [ret |-> Err(<< "Failed to parse existing config" >>), file |-> cfgFile]
    ELSE LET existing == IF cfgFile # None THEN from_str(cfgFile[1])[1]
                         ELSE JObj(<< >>)
             output == Pretty(merge_json(existing, from_str(args.raw[1])[1]), 0)
         IN  [ret |-> Ok(<< "Config patched" >>), file |-> Some(output)]

\* pub fn exec_gateway(args, workspace_dir): one call of the tool.  The file
\* system does what it is asked.
ExecGateway ==
    /\ \E args \in GatewayArgs :
          /\ gwReq' = Some(args)
          /\ LET out == CASE args.action = "restart" ->
                               [ret |-> Ok(<< "Gateway restart requested" >>),
                                file |-> cfgFile]
                           [] args.action = "config.get" ->
                               [ret |-> ConfigGet, file |-> cfgFile]
                           [] args.action = "config.apply" -> ConfigApply(args)
                           [] args.action = "config.patch" -> ConfigPatch(args)
             IN  /\ gwRet' = Some(out.ret)
                 /\ cfgFile' = out.file
    /\ UNCHANGED << base, patch, merged >>
    /\ UNCHANGED << mvars, gvars, svars, vvars >>

\* No call of the gateway tool has been made; openclaw.json does not exist
\* or holds one of ConfigTexts.
CInit ==
    /\ cfgFile \in { None } \cup { Some(t) : t \in ConfigTexts }
    /\ gwReq = None
    /\ gwRet = None
    /\ base = None
    /\ patch = None
    /\ merged = None

\* No call of the gateway tool and no merge has been made; no config file.
TIdle ==
    /\ cfgFile = None
    /\ gwReq = None
    /\ gwRet = None
    /\ base = None
    /\ patch = None
    /\ merged = None

\* A merge of two of JsonValues is due.
JInit ==
    /\ cfgFile = None
    /\ gwReq = None
    /\ gwRet = None
    /\ base \in { Some(v) : v \in JsonValues }
    /\ patch \in { Some(v) : v \in JsonValues }
    /\ merged = None

\* let merged = merge_json(existing, patch)
Merge ==
    /\ merged = None
    /\ merged' = Some(merge_json(base[1], patch[1]))
    /\ UNCHANGED << cfgFile, gwReq, gwRet, base, patch >>
    /\ UNCHANGED << mvars, gvars, svars, vvars >>

\* SecretsManager::new: no get has been made.  The specifications of the
\* messenger loop and of the gateway leave the vault as it is here.
VIdle ==
    /\ vault = << >>
    /\ vlocked = TRUE
    /\ vctx = DefaultContext
    /\ vreq = None
    /\ vret = None

\* A vault with its entries stored, locked or unlocked.
VInit ==
    /\ vault \in VaultContents
    /\ vlocked \in BOOLEAN
    /\ vctx = DefaultContext
    /\ vreq = None
    /\ vret = None

\* One get(name, ctx) on the vault.
VaultGet ==
    /\ \E name \in SecretNames, ctx \in AccessContexts :
          /\ vreq' = Some([name |-> name, ctx |-> ctx])
          /\ vret' = Some(get(vault, vlocked, name, ctx))
    /\ UNCHANGED << vault, vlocked, vctx >>
    /\ UNCHANGED << mvars, gvars, svars >>
    /\ UNCHANGED tvars

\* Key of a chat other than the ones the incoming messages belong to: the
\* chat with the sender of one of them on another messenger type.
OtherKey == << "discord", ":", "alice" >>

\* The stored conversation of that chat.
OtherHistory == << ChatMessage("user", << "on discord" >>) >>

\* Stores at the arrival of a message of the chat with the given key: empty,
\* with another chat only, and with both chats.  Stored entries are user and
\* assistant messages.
RequestStores(key) ==
    { << >>,
      [k \in { OtherKey } |-> OtherHistory],
      [k \in { key, OtherKey } |->
          IF k = key THEN StoredHistory(2, TRUE) ELSE OtherHistory] }

\* The poll of a cycle has returned one message, for one of RequestStores.
RInit ==
    /\ cancelled = FALSE
    /\ messengers = << [name |-> "tg", mtype |-> "telegram"] >>
    /\ mpc = "next"
    /\ polls = 1
    /\ \E msg \in IncomingMessages \cup ChannelMessages :
          /\ pending = << [mtype |-> "telegram", msg |-> msg, origin |-> "tg"] >>
          /\ conversations \in RequestStores(ConvKey("telegram", msg))
    /\ cur = None
    /\ messages = << >>
    /\ round = 0
    /\ final_response = << >>
    /\ model_resp = None
    /\ started = << >>
    /\ running = {}
    /\ tool_results = << >>
    /\ toolRan = FALSE
    /\ loopExit = "none"
    /\ ret = None
    /\ errlog = << >>
    /\ msgNo = 0
    /\ outbox = << >>
    /\ storeGuard = "none"
    /\ mgrGuard = "none"

\* The responses that open a round with a secrets_get call, alone or
\* followed by a direct tool.
SecretsRoundResponses ==
    { r \in Responses :
         /\ r.tool_calls # << >>
         /\ r.tool_calls[1].name = "secrets_get"
         /\ \A i \in 2..Len(r.tool_calls) : r.tool_calls[i].name = "read_file" }

\* The first provider response for a message has asked for a secrets_get,
\* for one of VaultContents, locked or not, and one of AccessContexts.
KInit ==
    /\ cancelled = FALSE
    /\ messengers = << [name |-> "tg", mtype |-> "telegram"] >>
    /\ mpc = "tools"
    /\ polls = 1
    /\ pending = << >>
    /\ \E msg \in IncomingMessages :
          /\ cur = Some([mtype |-> "telegram", msg |-> msg, origin |-> "tg"])
          /\ conversations = [k \in { ConvKey("telegram", msg) } |-> << >>]
          /\ messages =
                Append(WithSystemPrompt(
                          << >>, build_messenger_system_prompt("telegram", msg)),
                       ChatMessage("user", msg.content))
    /\ \E r \in SecretsRoundResponses :
          /\ model_resp = Some(r)
          /\ final_response = Accumulate(<< >>, r.text)
    /\ round = 1
    /\ started = << >>
    /\ running = {}
    /\ tool_results = << >>
    /\ toolRan = FALSE
    /\ loopExit = "none"
    /\ ret = None
    /\ errlog = << >>
    /\ msgNo = 1
    /\ outbox = << >>
    /\ storeGuard = "none"
    /\ mgrGuard = "none"
    /\ vault \in VaultContents
    /\ vlocked \in BOOLEAN
    /\ vctx \in AccessContexts
    /\ vreq = None
    /\ vret = None

\* ------------------------------------------------------------------------
\* Specifications
\* ------------------------------------------------------------------------

Init == MInit /\ GInit /\ SInit /\ VIdle /\ TIdle

\* The messenger loop.
Next ==
    \/ CancelToken
    \/ Shutdown
    \/ PollLock
    \/ Poll
    \/ CycleDone
    \/ SnapshotLock
    \/ ProcessStart
    \/ ProviderCall
    \/ LoopExhausted
    \/ ToolStart
    \/ ToolReturn
    \/ AppendToolRound
    \/ UpdateLock
    \/ StoreUpdate
    \/ SendLock
    \/ SendReply
    \/ HandleReturn

Spec == Init /\ [][Next]_vars

\* The gateway listener and its connections.
GatewayNext ==
    \/ GatewayCancel
    \/ AcceptLoopCancelled
    \/ Accept
    \/ \E c \in Conns : Handshake(c)
    \/ \E c \in Conns : SendHello(c)
    \/ \E c \in Conns : SessionCancelled(c)
    \/ \E c \in Conns : ReadEnd(c)
    \/ \E c \in Conns : ReadFrame(c)
    \/ \E c \in Conns : ChatProviderReply(c)
    \/ \E c \in Conns : SendFrame(c)

SpecGateway == Init /\ [][GatewayNext]_vars

\* The gateway with the steps that are its own to take: the tasks of the
\* runtime are scheduled, a write to a socket ends, and a select! among ready
\* branches takes each of them sooner or later.  Nothing is assumed of the
\* clients nor of the provider, whose HTTP call has no timeout.
FairSpecGateway ==
    /\ SpecGateway
    /\ WF_vars(AcceptLoopCancelled)
    /\ \A c \in Conns :
          /\ WF_vars(Handshake(c))
          /\ WF_vars(SendHello(c))
          /\ WF_vars(SessionCancelled(c))
          /\ WF_vars(SendFrame(c))

\* The one-shot sender and the gateway that serves it.
SenderNext ==
    \/ SenderConnect
    \/ SenderAccepted
    \/ SenderConnected
    \/ SenderSend
    \/ SenderCommandRead
    \/ SenderRead
    \/ SenderStreamEnd
    \/ SenderGone
    \/ Handshake(SenderConn)
    \/ SendHello(SenderConn)
    \/ ChatProviderReply(SenderConn)
    \/ SendFrame(SenderConn)

SpecSender == Init /\ [][SenderNext]_vars

\* The history update of a message, for conversations near the cap.
HistoryNext ==
    \/ UpdateLock
    \/ StoreUpdate
    \/ SendLock
    \/ SendReply
    \/ HandleReturn
    \/ CycleDone
    \/ CancelToken
    \/ Shutdown

HistoryInit == HInit /\ GInit /\ SInit /\ VIdle /\ TIdle

SpecHistory == HistoryInit /\ [][HistoryNext]_vars

\* One incoming message from its arrival to the end of its processing, for a
\* store that already holds conversations.
RequestNext ==
    \/ SnapshotLock
    \/ ProcessStart
    \/ ProviderCall
    \/ LoopExhausted
    \/ ToolStart
    \/ ToolReturn
    \/ AppendToolRound
    \/ UpdateLock
    \/ StoreUpdate
    \/ SendLock
    \/ SendReply
    \/ HandleReturn
    \/ CycleDone
    \/ CancelToken
    \/ Shutdown

RequestInit == RInit /\ GInit /\ SInit /\ VIdle /\ TIdle

SpecRequest == RequestInit /\ [][RequestNext]_vars

\* Reads of the vault.
VaultNext == VaultGet

\* Calls of the gateway tool.
ConfigNext == ExecGateway

ConfigInit == MInit /\ GInit /\ SInit /\ VIdle /\ CInit

SpecConfig == ConfigInit /\ [][ConfigNext]_vars

\* One merge.
MergeNext == Merge

MergeInit == MInit /\ GInit /\ SInit /\ VIdle /\ JInit

SpecMerge == MergeInit /\ [][MergeNext]_vars

VaultInit == MInit /\ GInit /\ SInit /\ VInit /\ TIdle

SpecVault == VaultInit /\ [][VaultNext]_vars

\* The tools of a round that begins with a secrets_get, up to the next
\* provider call.
SecretsRoundNext ==
    \/ ToolStart
    \/ ToolReturn
    \/ AppendToolRound

SecretsRoundInit == KInit /\ GInit /\ SInit /\ TIdle

SpecSecretsRound == SecretsRoundInit /\ [][SecretsRoundNext]_vars

\* ------------------------------------------------------------------------
\* The tool loop of one message, with texts that tell the rounds apart
\* ------------------------------------------------------------------------

ReplyTexts == { << >>, << "a" >>, << "b" >> }

\* Responses with one of ReplyTexts and at most one call, of a direct tool.
ReplyResponses ==
    { r \in [ text : ReplyTexts, tool_calls : SeqsUpTo(ToolCalls, 1) ] :
         \A i \in 1..Len(r.tool_calls) : r.tool_calls[i].name = "read_file" }

\* process_incoming_message is about to enter the tool loop for the first
\* message of a chat.
LInit ==
    /\ cancelled = FALSE
    /\ messengers = << [name |-> "tg", mtype |-> "telegram"] >>
    /\ mpc = "loop"
    /\ polls = 1
    /\ pending = << >>
    /\ \E msg \in IncomingMessages :
          /\ cur = Some([mtype |-> "telegram", msg |-> msg, origin |-> "tg"])
          /\ conversations = [k \in { ConvKey("telegram", msg) } |-> << >>]
          /\ messages =
                Append(WithSystemPrompt(
                          << >>, build_messenger_system_prompt("telegram", msg)),
                       ChatMessage("user", msg.content))
    /\ model_resp = None
    /\ final_response = << >>
    /\ round = 0
    /\ started = << >>
    /\ running = {}
    /\ tool_results = << >>
    /\ toolRan = FALSE
    /\ loopExit = "none"
    /\ ret = None
    /\ errlog = << >>
    /\ msgNo = 1
    /\ outbox = << >>
    /\ storeGuard = "none"
    /\ mgrGuard = "none"

ReplyCall == ProviderCallFrom(ReplyResponses)

\* The tool loop, from its first provider call to its end.
ReplyNext ==
    \/ ReplyCall
    \/ LoopExhausted
    \/ ToolStart
    \/ ToolReturn
    \/ AppendToolRound

ReplyInit == LInit /\ GInit /\ SInit /\ VIdle /\ TIdle

SpecReply == ReplyInit /\ [][ReplyNext]_vars

\* ------------------------------------------------------------------------
\* Poll cycles over several messengers
\* ------------------------------------------------------------------------

\* What one messenger's receive_messages() returns in these cycles: a
\* failure, no message, or two messages.
CycleResults ==
    { Err(<< >>), Ok(<< >>) }
       \cup { Ok(<< m, c >>) : m \in IncomingMessages, c \in ChannelMessages }

\* The provider's answer in these cycles, when it does not fail: no text and
\* no tool call.
CycleResponses == { [text |-> << >>, tool_calls |-> << >>] }

\* run_messenger_loop starts with two messengers.
PInit ==
    /\ cancelled = FALSE
    /\ messengers = << [name |-> "dc", mtype |-> "discord"],
                       [name |-> "tg", mtype |-> "telegram"] >>
    /\ mpc = "sleep"
    /\ polls = 0
    /\ pending = << >>
    /\ cur = None
    /\ conversations = << >>
    /\ messages = << >>
    /\ round = 0
    /\ final_response = << >>
    /\ model_resp = None
    /\ started = << >>
    /\ running = {}
    /\ tool_results = << >>
    /\ toolRan = FALSE
    /\ loopExit = "none"
    /\ ret = None
    /\ errlog = << >>
    /\ msgNo = 0
    /\ outbox = << >>
    /\ storeGuard = "none"
    /\ mgrGuard = "none"

CyclePollLock == PollLockUpTo(MaxCycles)

CyclePoll == PollFrom(CycleResults)

CycleCall == ProviderCallFrom(CycleResponses)

\* The messenger loop over these cycles.
CycleNext ==
    \/ CancelToken
    \/ Shutdown
    \/ CyclePollLock
    \/ CyclePoll
    \/ CycleDone
    \/ SnapshotLock
    \/ ProcessStart
    \/ CycleCall
    \/ UpdateLock
    \/ StoreUpdate
    \/ SendReply
    \/ HandleReturn

CycleInit == PInit /\ GInit /\ SInit /\ VIdle /\ TIdle

SpecCycle == CycleInit /\ [][CycleNext]_vars

\* The steps of the messenger task in these cycles.
CycleTask ==
    \/ Shutdown
    \/ CyclePollLock
    \/ CyclePoll
    \/ CycleDone
    \/ SnapshotLock
    \/ ProcessStart
    \/ CycleCall
    \/ UpdateLock
    \/ StoreUpdate
    \/ SendReply
    \/ HandleReturn

\* The task is scheduled, and every future it awaits completes: the sleep,
\* the locks, the polls and the provider calls.
FairSpecCycle == SpecCycle /\ WF_vars(CycleTask)

\* ------------------------------------------------------------------------
\* Properties of the tool loop
\* ------------------------------------------------------------------------

\* Positions of the messenger task after the tool loop of the message.
AfterLoop == { "store", "send", "returned", "next", "sleep", "stopped" }

HasError(results) == \E i \in 1..Len(results) : results[i].is_error

\* C1: for one incoming message the tool loop makes at most
\* MAX_TOOL_ROUNDS = 25 provider calls, whatever the provider returns; after
\* the 25th the loop is left and no further call can be made.
C1_AtMostMaxRounds ==
    /\ MAX_TOOL_ROUNDS = 25
    /\ round <= MAX_TOOL_ROUNDS
    /\ (round = MAX_TOOL_ROUNDS /\ mpc = "loop" => ~ENABLED ProviderCall)

\* The 25th provider call was made and it asked for tools again.
C1_Witness == round = MAX_TOOL_ROUNDS /\ mpc = "tools" /\ Calls # << >>

\* C2 (as claimed): when every one of the 25 rounds carried a tool call, the
\* loop ends with a loop-capped error, not as an ordinary successful reply.
C2_LoopCappedError ==
    (loopExit = "cap" /\ mpc = "returned" /\ ret # None) => ~ret[1].ok

\* An executor's error text, and a name of no catalog, come with is_error.
C3_ErrorFlagged ==
    \A i \in 1..Len(tool_results) :
       LET r == tool_results[i]
       IN  /\ r.output \in { << "failed" >>, << "denied" >>, << "skill failed" >>,
                             << "requires gateway" >>, << "Unknown tool: ", r.name >> }
              => r.is_error
           /\ r.name \notin all_tools => r.is_error

\* With a failed call among the round's results the loop is still running.
C3_LoopGoesOn ==
    /\ HasError(tool_results) =>
          /\ mpc \in { "tools", "append" }
          /\ loopExit = "none"
          /\ ret = None
          /\ mpc = "tools" /\ running = {} => ENABLED ToolStart
          /\ mpc = "tools" /\ running # {} => ENABLED ToolReturn
          /\ mpc = "append" => ENABLED AppendToolRound
    /\ mpc = "loop" /\ round < MAX_TOOL_ROUNDS => ENABLED ProviderCall

\* C3: a tool call whose execution fails, also one that names a tool of no
\* catalog, gives a result with is_error = TRUE and the loop goes on as
\* after a success: the remaining calls of the round run, the round is
\* appended and the loop head is reached again, where the next provider call
\* is made (unless the 25 rounds are used up).
C3_ToolErrorNotFatal ==
    /\ [](C3_ErrorFlagged /\ C3_LoopGoesOn)
    /\ [][ mpc = "append" /\ mpc' # "append" /\ HasError(tool_results)
             => mpc' = "loop" /\ round' = round /\ ret' = None /\ loopExit' = "none" ]_vars

\* A call of an unknown tool failed, and the call after it ran and succeeded.
C3_Witness ==
    /\ mpc = "append"
    /\ Len(tool_results) = 2
    /\ tool_results[1].name = "no_such_tool"
    /\ tool_results[1].is_error
    /\ ~tool_results[2].is_error

\* C4: when a provider call fails the loop stops at once: for that message
\* no provider call and no tool execution follows, the error is returned
\* and written to the error log.
C4_ProviderErrorStops ==
    /\ [](loopExit = "error" =>
            /\ mpc \in { "returned", "next", "sleep", "stopped" }
            /\ ret # None
            /\ ~ret[1].ok
            /\ errlog # << >>
            /\ running = {})
    /\ [][ loopExit = "error" /\ msgNo' = msgNo
             => /\ round' = round
                /\ started' = started
                /\ running' = running
                /\ tool_results' = tool_results
                /\ toolRan' = toolRan
                /\ ret' = ret ]_vars

\* The provider failed in the second round, after a round of tools.
C4_Witness == loopExit = "error" /\ round = 2 /\ toolRan /\ mpc = "returned"

\* C5: the tool calls of a round run one at a time in emitted order: at most
\* one executes at any time, call i + 1 starts only after call i has
\* returned, and the results come in the order of the calls.
C5_SequentialInOrder ==
    /\ Cardinality(running) <= 1
    /\ \A i \in 1..Len(started) : started[i] = i
    /\ Len(started) <= Len(Calls)
    /\ running # {} => running = { Len(started) } /\ Len(tool_results) = Len(started) - 1
    /\ running = {} => Len(tool_results) = Len(started)

\* The second call of a round is executing and the first has returned.
C5_Witness == mpc = "tools" /\ running = { 2 } /\ Len(tool_results) = 1

\* C6: the results handed to append_tool_round are one per requested call,
\* in the order of the calls, each with the id and the name of its call.
C6_ResultsMatchCalls ==
    mpc = "append" =>
       /\ Calls # << >>
       /\ Len(tool_results) = Len(Calls)
       /\ \A i \in 1..Len(Calls) :
             /\ tool_results[i].id = Calls[i].id
             /\ tool_results[i].name = Calls[i].name

\* A round of two calls with different ids is handed over.
C6_Witness ==
    /\ mpc = "append"
    /\ Len(tool_results) = 2
    /\ tool_results[1].id # tool_results[2].id

\* The first provider response of the message came without tool calls.
FirstResponseWithoutTools ==
    round = 1 /\ model_resp # None /\ model_resp[1].tool_calls = << >>

\* C7: when the first provider response has no tool calls, the loop ends
\* successfully after that one provider call, no tool is executed, and the
\* final reply is the text of that response.
C7_NoToolsOneCall ==
    /\ [](FirstResponseWithoutTools =>
            /\ mpc \in AfterLoop
            /\ loopExit = "break"
            /\ ~toolRan
            /\ started = << >>
            /\ final_response = model_resp[1].text
            /\ (ret # None => ret[1].ok))
    /\ [][ FirstResponseWithoutTools /\ msgNo' = msgNo
             => round' = 1 /\ ~toolRan' /\ final_response' = final_response ]_vars

\* The message was answered with the text of the only provider call.
C7_Witness ==
    /\ FirstResponseWithoutTools
    /\ mpc = "returned"
    /\ final_response = << "a" >>
    /\ ret[1].ok

\* ------------------------------------------------------------------------
\* Properties of the gateway connection
\* ------------------------------------------------------------------------

IsRequest(m) == m.ws \in { "Text", "Binary" }

IsReply(f) == f.ws = "Text" /\ f.type \in { "response", "error" }

Requests(c) == SelectSeq(received[c], IsRequest)

Replies(c) == SelectSeq(sent[c], IsReply)

\* The replies written so far answer the requests read so far, one each and
\* in order; at most the frame in hand is unanswered.
C9_ReplyPerFrame ==
    \A c \in Conns :
       LET q == Requests(c)
           p == Replies(c)
       IN  /\ Len(p) <= Len(q)
           /\ Len(q) - Len(p) <= 1
           /\ gpc[c] = "select" => Len(p) = Len(q)
           /\ \A i \in 1..Len(p) :
                 q[i].ws = "Text" =>
                    \/ p[i].type = "response" /\ p[i].ok = "true"
                    \/ p[i].type = "error" /\ p[i].ok = "false" /\ IsChat(q[i].data)
           /\ (gpc[c] = "send" /\ gout[c] # None /\ gout[c][1].kind # "json") =>
                 gresp[c][1].type = "error" /\ gresp[c][1].ok = "false"

\* C9: every text frame received on an open connection is answered with
\* exactly one text frame, a response with ok true or, when the provider
\* call fails, an error with ok false; after either the connection stays
\* open and reads on.  (A frame whose answer cannot be written ends the
\* session instead.)
C9_OneReplyStaysOpen ==
    /\ []C9_ReplyPerFrame
    /\ [][ \A c \in Conns :
              (gpc[c] = "send" /\ sent'[c] # sent[c]) =>
                 /\ sent'[c] = Append(sent[c], gresp[c][1])
                 /\ gpc'[c] = "select" ]_vars

\* A failed chat was answered with an error frame and the next text frame
\* of the same connection was read and answered.
C9_Witness ==
    \E c \in Conns :
       /\ gpc[c] = "select"
       /\ Len(Replies(c)) = 2
       /\ Requests(c)[1].ws = "Text"
       /\ Replies(c)[1].type = "error"
       /\ Requests(c)[2].ws = "Text"
       /\ Replies(c)[2].type = "response"

\* C10: a connection gets exactly one hello frame, and it is the first frame
\* written: before any response or error frame.
C10_HelloFirst ==
    \A c \in Conns :
       /\ \A i \in 1..Len(sent[c]) : (sent[c][i] = HelloFrame) <=> (i = 1)
       /\ gpc[c] \in { "select", "provider", "send" } => sent[c] # << >>
       /\ received[c] # << >> => sent[c] # << >>

\* A response frame follows the hello frame.
C10_Witness ==
    \E c \in Conns :
       /\ Len(sent[c]) >= 2
       /\ sent[c][1] = HelloFrame
       /\ sent[c][2].type = "response"

\* ------------------------------------------------------------------------
\* Properties of the one-shot sender
\* ------------------------------------------------------------------------

\* C11: what the one-shot sender returns for its command is the gateway's
\* reply to that command, the response or error frame written for it, and no
\* other frame of the gateway.
C11_SenderReturnsReply ==
    (cret # None /\ cret[1].ok) =>
       /\ IsReply(cret[1].text)
       /\ Replies(SenderConn) # << >>
       /\ cret[1].text = Replies(SenderConn)[1]

\* ------------------------------------------------------------------------
\* Properties of the frames of a gateway connection
\* ------------------------------------------------------------------------

\* The frame read last on connection c.
LastReceived(c) == received[c][Len(received[c])]

\* The frame written last on connection c.
LastSent(c) == sent[c][Len(sent[c])]

\* The text is a JSON object that has every required field of the chat
\* envelope and the type "chat".
MatchesChatSchema(t) ==
    /\ t.json # None
    /\ { "type", "messages", "model", "provider", "base_url" } \subseteq DOMAIN t.json[1]
    /\ t.json[1].type = "chat"

\* The text is a JSON envelope of an unknown type, or a chat envelope that
\* lacks a required field.
IsProtocolError(t) == t.json # None /\ ~MatchesChatSchema(t)

\* The frame in hand on connection c is a text frame outside the chat schema.
NonChatInHand(c) ==
    /\ received[c] # << >>
    /\ LastReceived(c).ws = "Text"
    /\ ~MatchesChatSchema(LastReceived(c).data)

\* C12: a text frame that does not match the chat envelope schema is answered
\* with {type: response, ok: true, received: the exact text of the frame}, and
\* no provider call is made for it.
C12_EchoNoProvider ==
    \A c \in Conns :
       NonChatInHand(c) =>
          /\ gcalls[c] = 0
          /\ gpc[c] # "provider"
          /\ gpc[c] = "send" =>
                gresp[c] = Some(TextFrame("response", "true", LastReceived(c).data.text))
          /\ gpc[c] = "select" =>
                LastSent(c) = TextFrame("response", "true", LastReceived(c).data.text)

\* A JSON text of another type was echoed and the connection reads on.
C12_Witness ==
    \E c \in Conns :
       /\ NonChatInHand(c)
       /\ LastReceived(c).data.text = << "{status}" >>
       /\ gpc[c] = "select"
       /\ LastSent(c) = TextFrame("response", "true", << "{status}" >>)

\* C13 (as stated): a text frame with a protocol error, a JSON envelope of an
\* unknown type or a chat envelope without a required field, is answered with
\* a frame {type: error, ok: false}.
C13_ProtocolErrorFrame ==
    \A c \in Conns :
       (/\ received[c] # << >>
        /\ LastReceived(c).ws = "Text"
        /\ IsProtocolError(LastReceived(c).data)
        /\ gpc[c] = "send") =>
          gresp[c][1].type = "error" /\ gresp[c][1].ok = "false"

\* C13 (amended): a text frame with a protocol error is answered like any
\* other text outside the chat schema, with the echo frame {type: response,
\* ok: true, received: the text}, and the session stays open.
C13_ProtocolErrorEchoed ==
    [][ \A c \in Conns :
           (/\ gpc[c] = "send"
            /\ LastReceived(c).ws = "Text"
            /\ IsProtocolError(LastReceived(c).data)
            /\ sent'[c] # sent[c]) =>
              /\ sent'[c] = Append(sent[c], ResponseFrame(LastReceived(c).data.text))
              /\ gpc'[c] = "select" ]_vars

\* A chat envelope without base_url was echoed with ok true.
C13_Witness ==
    \E c \in Conns :
       /\ received[c] # << >>
       /\ LastReceived(c).data.text = << "{chat without base_url}" >>
       /\ IsProtocolError(LastReceived(c).data)
       /\ gpc[c] = "select"
       /\ LastSent(c).type = "response"
       /\ LastSent(c).ok = "true"
       /\ LastSent(c).body = << "{chat without base_url}" >>

\* C14: a binary frame is answered with an error frame {type: error, ok:
\* false}; it is not handled as a request (no echo, no provider call), and
\* after the answer the connection is open and reads on.
C14_BinaryRejected ==
    /\ [](\A c \in Conns :
             (received[c] # << >> /\ LastReceived(c).ws = "Binary") =>
                /\ gcalls[c] = 0
                /\ gpc[c] # "provider"
                /\ gpc[c] = "send" =>
                      /\ gresp[c][1].ws = "Text"
                      /\ gresp[c][1].type = "error"
                      /\ gresp[c][1].ok = "false")
    /\ [][ \A c \in Conns :
              (/\ gpc[c] = "send"
               /\ LastReceived(c).ws = "Binary"
               /\ sent'[c] # sent[c]) =>
                 /\ sent'[c] = Append(sent[c], gresp[c][1])
                 /\ gpc'[c] = "select" ]_vars

\* A binary frame was refused and a later text frame on the same connection
\* was answered.
C14_Witness ==
    \E c \in Conns :
       /\ Len(Requests(c)) = 2
       /\ Requests(c)[1].ws = "Binary"
       /\ Requests(c)[2].ws = "Text"
       /\ Len(Replies(c)) = 2
       /\ Replies(c)[1].type = "error"
       /\ Replies(c)[1].ok = "false"
       /\ Replies(c)[2].type = "response"

\* The reply f is one that the request m can get.
Answers(f, m) ==
    CASE m.ws = "Binary" -> f.type = "error"
      [] m.ws = "Text" /\ ~MatchesChatSchema(m.data) ->
            f = TextFrame("response", "true", m.data.text)
      [] OTHER -> f.type \in { "response", "error" }

\* C15: within one connection a frame is read only when the handling of the
\* previous frame is over and its reply has been written, and the replies
\* leave in the order in which the frames arrived.
C15_Serialized ==
    /\ [](\A c \in Conns :
             /\ Len(Replies(c)) <= Len(Requests(c))
             /\ \A i \in 1..Len(Replies(c)) : Answers(Replies(c)[i], Requests(c)[i]))
    /\ [][ \A c \in Conns :
              received'[c] # received[c] =>
                 /\ gpc[c] = "select"
                 /\ gresp[c] = None
                 /\ Len(Replies(c)) = Len(Requests(c)) ]_vars

\* Two different texts of one connection were answered, each with its own
\* echo, in the order of arrival.
C15_Witness ==
    \E c \in Conns :
       /\ Len(Requests(c)) = 2
       /\ Requests(c)[1].data.text = << "{status}" >>
       /\ Requests(c)[2].data.text = << "ping" >>
       /\ Len(Replies(c)) = 2
       /\ Replies(c)[1].body = << "{status}" >>
       /\ Replies(c)[2].body = << "ping" >>

\* ------------------------------------------------------------------------
\* Properties of cancellation and of transport errors
\* ------------------------------------------------------------------------

\* C16: while a message is in process the cancellation token is looked at
\* before each provider call and between tool executions: once it is
\* triggered, no provider call is made and no tool execution is started.
C16_CancelChecked ==
    [][ cancelled =>
           /\ round' # round + 1
           /\ Len(started') # Len(started) + 1 ]_vars

\* The sessions of the gateway are all over.
SessionsOver == \A c \in Conns : gpc[c] \in { "none", "closed", "failed" }

\* C17: when the root token is triggered the accept loop exits and every
\* open session ends, also a session that is handling a request.
C17_ShutdownEndsSessions ==
    gcancel ~> (gwpc # "accepting" /\ SessionsOver)

\* C18: a transport error about one client (a failed accept or handshake, a
\* read error, a client gone, a failed write) ends at most that client's
\* session: the listener goes on accepting until it is cancelled, and no
\* other session changes.
C18_TransportErrorsLocal ==
    [][ /\ (gwpc = "accepting" /\ gwpc' # "accepting") => gcancel
        /\ \A c \in Conns :
              (gpc[c] # "failed" /\ gpc'[c] = "failed") =>
                 \A d \in Conns \ {c} : gpc'[d] = gpc[d] /\ sent'[d] = sent[d] ]_vars

\* ------------------------------------------------------------------------
\* Properties of the trimming of a stored conversation
\* ------------------------------------------------------------------------

\* The conversation of key k with the entries of the message in process
\* pushed, before it is trimmed.
Pushed(k) ==
    conversations[k] \o << ChatMessage("user", cur[1].msg.content) >>
       \o (IF final_response # << >>
           THEN << ChatMessage("assistant", final_response) >> ELSE << >>)

\* This step updates the conversation of key k and trims it.
TrimStep(k) ==
    /\ mpc = "store"
    /\ mpc' = "send"
    /\ k = ConvKey(cur[1].mtype, cur[1].msg)
    /\ Len(Pushed(k)) > MAX_HISTORY_MESSAGES

\* the last n entries of q
LastEntries(q, n) == SubSeq(q, Len(q) - n + 1, Len(q))

\* C19: after a trim the stored conversation is empty, or its entry at index
\* 0 is the system message that was at index 0 before the trim and the
\* entries removed are the oldest from index 1 upward.
C19_SystemMessageKept ==
    [][ \A k \in DOMAIN conversations :
           TrimStep(k) =>
              \/ conversations'[k] = << >>
              \/ /\ conversations'[k][1].role = "system"
                 /\ conversations'[k] =
                       << Pushed(k)[1] >>
                          \o LastEntries(Pushed(k), MAX_HISTORY_MESSAGES - 1) ]_vars

\* C20: a stored conversation without a system message at index 0 is trimmed
\* from index 0: the oldest entries go first and the newest stay.
C20_IndexZeroOrdinary ==
    [][ \A k \in DOMAIN conversations :
           (TrimStep(k) /\ Pushed(k)[1].role # "system") =>
              conversations'[k] = LastEntries(Pushed(k), MAX_HISTORY_MESSAGES) ]_vars

\* C21: the stored history of every chat holds at most MAX_HISTORY_MESSAGES
\* entries, before and after every processed message.
C21_HistoryBounded ==
    \A k \in DOMAIN conversations : Len(conversations[k]) <= MAX_HISTORY_MESSAGES

\* A conversation of 50 entries got two more and was cut back to 50.
C21_Witness ==
    /\ mpc = "send"
    /\ \E k \in DOMAIN conversations :
          /\ Len(conversations[k]) = MAX_HISTORY_MESSAGES
          /\ conversations[k][2].content = Some(<< "entry", "4" >>)

\* C22: trimming is idempotent: the trim of a trimmed history is that
\* history, both for the history about to be stored and for every history
\* the store holds after an update.
C22_TrimIdempotent ==
    \A k \in DOMAIN conversations :
       /\ (mpc = "store" /\ k = ConvKey(cur[1].mtype, cur[1].msg)) =>
             TrimHistory(TrimHistory(Pushed(k))) = TrimHistory(Pushed(k))
       /\ mpc # "store" => TrimHistory(conversations[k]) = conversations[k]

\* A conversation of 50 entries got one more and lost its entry at index 1;
\* trimming it again gives the same 50 entries.
C22_Witness ==
    /\ mpc = "send"
    /\ \E k \in DOMAIN conversations :
          /\ Len(conversations[k]) = MAX_HISTORY_MESSAGES
          /\ conversations[k][2].content = Some(<< "entry", "3" >>)
          /\ TrimHistory(conversations[k]) = conversations[k]

\* Entry i of history h is a tool result whose round is not there: no
\* assistant entry with tool calls precedes it, tool results alone between.
Orphaned(h, i) ==
    /\ h[i].tool_call_id # None
    /\ ~\E j \in 1..(i - 1) :
           /\ h[j].role = "assistant"
           /\ h[j].tool_calls # None
           /\ \A m \in (j + 1)..(i - 1) : h[m].tool_call_id # None

Sendable(reply) ==
    /\ reply # << >>
    /\ StrTrim(reply) \notin { << "NO_REPLY" >>, << "HEARTBEAT_OK" >> }

\* The reply of the message in process goes out on a messenger.
ReplyGoesOut == SendReply /\ Len(outbox') = Len(outbox) + 1

\* C25: the reply of a message is sent on the messenger if and only if it is
\* not empty and its trimmed text is neither NO_REPLY nor HEARTBEAT_OK; what
\* is sent is the final reply, never a sentinel.
C25_SentinelSuppressed ==
    /\ [](mpc = "send" =>
             /\ Sendable(final_response) <=> (mgrGuard = "send" \/ ENABLED SendLock)
             /\ mgrGuard = "send" => ENABLED ReplyGoesOut
             /\ ~Sendable(final_response) => ~ENABLED ReplyGoesOut)
    /\ [][ outbox' # outbox =>
              /\ mpc = "send"
              /\ Sendable(final_response)
              /\ Len(outbox') = Len(outbox) + 1
              /\ outbox'[Len(outbox')].content = final_response ]_vars

\* A sentinel within whitespace was held back: the message returned with
\* nothing sent.
C25_Witness ==
    /\ mpc = "returned"
    /\ final_response = << " ", "NO_REPLY", "\n" >>
    /\ outbox = << >>
    /\ ret = Some(Ok(<< >>))

\* C26: a reply goes out through the messenger that delivered the incoming
\* message, to the message's channel or, without one, to its sender.
C26_ReplyViaOrigin ==
    [][ outbox' # outbox =>
           LET o == outbox'[Len(outbox')]
               msg == cur[1].msg
           IN  /\ o.via = cur[1].origin
               /\ o.recipient = IF msg.channel = None THEN msg.sender
                                ELSE msg.channel[1] ]_vars

\* ------------------------------------------------------------------------
\* Properties of the request of one incoming message
\* ------------------------------------------------------------------------

\* The tool loop of the message in process is running: its message list is
\* the one the next provider call sends.
InToolLoop == mpc \in { "loop", "tools", "append" }

\* The key of the message in process.
CurKey == ConvKey(cur[1].mtype, cur[1].msg)

\* C24: in every round of the tool loop the message list of the request has
\* one system message, at index 0, whose content is the prompt built for the
\* message in process; the stored history of the chat follows it, and the
\* new user message follows the stored history.
C24_RequestShape ==
    InToolLoop =>
        LET item == cur[1]
            h == conversations[CurKey]
        IN  /\ Len(messages) >= Len(h) + 2
            /\ messages[1] =
                   ChatMessage("system",
                               build_messenger_system_prompt(item.mtype, item.msg))
            /\ \A i \in 2..Len(messages) : messages[i].role # "system"
            /\ SubSeq(messages, 2, Len(h) + 1) = h
            /\ messages[Len(h) + 2] = ChatMessage("user", item.msg.content)

\* A third provider call is due for a chat with a stored history, after a
\* round of two tool calls and a round of one.
C24_Witness ==
    /\ mpc = "loop"
    /\ round = 2
    /\ Len(conversations[CurKey]) = 2
    /\ Len(messages) = 1 + 2 + 1 + 3 + 2

\* "<type>:<channel or sender>" of an incoming message.
KeyOf(item) ==
    << item.mtype, ":",
       IF item.msg.channel = None THEN item.msg.sender ELSE item.msg.channel[1] >>

\* The entries of a stored conversation.
EntriesOf(h) == { h[i] : i \in 1..Len(h) }

\* C27: a step of the processing of a message changes no conversation but
\* the one under "<type>:<channel or sender>" of that message, creates no
\* other key, drops none, and puts no entry of another conversation into
\* the message list of the request.
C27_OwnConversationOnly ==
    [][ /\ cur' = None => conversations' = conversations
        /\ cur' # None =>
              LET key == KeyOf(cur'[1])
              IN  /\ DOMAIN conversations \subseteq DOMAIN conversations'
                  /\ \A k \in DOMAIN conversations' \ { key } :
                        /\ k \in DOMAIN conversations
                        /\ conversations'[k] = conversations[k]
                  /\ \A k \in DOMAIN conversations \ { key } :
                        EntriesOf(conversations[k]) \cap EntriesOf(messages') = {} ]_vars

\* The history of the chat has grown by the message and its reply next to
\* the conversation of the same sender on another messenger type.
C27_Witness ==
    /\ mpc = "send"
    /\ cur[1].msg.sender = "alice"
    /\ OtherKey \in DOMAIN conversations
    /\ Len(conversations[CurKey]) = 4

\* ------------------------------------------------------------------------
\* Properties of the dispatch of tool calls
\* ------------------------------------------------------------------------

\* The three categories as sets of names.
VaultNames == { "secrets_list", "secrets_get", "secrets_store" }

SkillNames ==
    { "skill_list", "skill_search", "skill_install", "skill_info", "skill_enable",
      "skill_link_secret" }

CategoryOf(name) ==
    IF name \in VaultNames THEN "vault"
    ELSE IF name \in SkillNames THEN "skill"
    ELSE "direct"

\* Names a call may carry: the catalog and a name that is in none.
CallNames == all_tools \cup { "no_such_tool" }

\* The executor a result of the current round came from, read off its output.
ExecutorOf(result) ==
    IF \E res \in execute_secrets_tool(result.name) : res.text = result.output
    THEN "vault"
    ELSE IF \E res \in execute_skill_tool(result.name) : res.text = result.output
         THEN "skill"
         ELSE "direct"

\* C28: every name has the category of the one set it is in (vault, skill,
\* or direct for all other names), no name is matched both as a vault tool
\* and as a skill tool, and every result of the tool loop comes from the
\* executor of its name's category.
C28_Categorisation ==
    /\ \A n \in CallNames :
          /\ Route(n) = CategoryOf(n)
          /\ ~(is_secrets_tool(n) /\ is_skill_tool(n))
    /\ \A i \in 1..Len(tool_results) :
          ExecutorOf(tool_results[i]) = CategoryOf(tool_results[i].name)

\* A round with a skill tool and a vault tool has its two results.
C28_Witness ==
    /\ Len(tool_results) = 2
    /\ tool_results[1].name = "skill_list"
    /\ tool_results[2].name = "secrets_get"

Granted(policy, ctx) ==
    \/ policy.kind = "always"
    \/ policy.kind = "with_approval" /\ ctx.user_approved
    \/ policy.kind = "with_auth" /\ ctx.authenticated
    \/ /\ policy.kind = "skill_only"
       /\ \E sk \in policy.skills : ctx.active_skill = Some(sk)

\* The last get returned the value of the entry it asked for.
ValueReturned ==
    /\ vret[1].ok
    /\ vret[1].text = vault[vreq[1].name].value

\* C30 as stated: a get of an entry of the vault returns its value exactly
\* when the entry's policy grants the access for the context of the get.
C30_PolicyAloneDecides ==
    (vreq # None /\ vreq[1].name \in DOMAIN vault) =>
        (ValueReturned <=> Granted(vault[vreq[1].name].policy, vreq[1].ctx))

\* C30: a get of an entry of the vault returns its value exactly when the
\* vault is unlocked, the entry is not disabled and the entry's policy grants
\* the access for the context of the get; a get of a name the vault does not
\* hold returns no value.
C30_GetGatedByPolicy ==
    vreq # None =>
        IF vreq[1].name \in DOMAIN vault
        THEN ValueReturned <=>
                /\ ~vlocked
                /\ ~vault[vreq[1].name].disabled
                /\ Granted(vault[vreq[1].name].policy, vreq[1].ctx)
        ELSE ~vret[1].ok

\* The value of a skill-only entry was returned to its skill.
C30_Witness ==
    /\ vreq # None
    /\ vreq[1].name \in DOMAIN vault
    /\ vault[vreq[1].name].policy.kind = "skill_only"
    /\ vreq[1].ctx.active_skill = Some("deploy")
    /\ ~vreq[1].ctx.user_approved
    /\ ValueReturned

\* ------------------------------------------------------------------------
\* Properties of a secrets_get in the tool loop
\* ------------------------------------------------------------------------

\* The vault holds the credential under the policy with-approval and the
\* current context carries no approval of the user.
ApprovalMissing ==
    /\ "api_key" \in DOMAIN vault
    /\ vault["api_key"].policy.kind = "with_approval"
    /\ ~vctx.user_approved

\* The results of the secrets_get calls of the round so far.
SecretsGetResults ==
    { tool_results[i] : i \in { j \in 1..Len(tool_results) :
                                   tool_results[j].name = "secrets_get" } }

\* The result of a denied get: an error whose text names the policy.  A get
\* of a name the vault does not hold is the only other result.
DeniedByPolicy(r) ==
    /\ r.is_error
    /\ \/ r.output = << "policy-denied", "with_approval" >>
       \/ r.output = << "not-found" >>

\* The round goes on after a secrets_get: no exit of the loop, no return of
\* process_incoming_message, and the next provider call is made.
LoopGoesOn ==
    /\ mpc \in { "tools", "append", "loop" }
    /\ loopExit = "none"
    /\ ret = None
    /\ mpc = "loop" => ENABLED ProviderCall

IsErrorFrame(f) == f.ws = "Text" /\ f.type = "error"

\* C32 (as claimed): the sender exits with 0 on success, with 1 on an invalid
\* gateway URL, with 2 when the connection to the gateway fails, and with 3
\* when the frame it returns is an error frame.
C32_ExitCodes ==
    (cpc = "done" /\ cret # None) =>
        LET code == main_exit_code(cret[1])
        IN  /\ (cret[1].ok /\ ~IsErrorFrame(cret[1].text)) => code = 0
            /\ (cret[1].ok /\ IsErrorFrame(cret[1].text)) => code = 3
            /\ (~cret[1].ok /\ cret[1].text = << "Invalid gateway URL" >>) => code = 1
            /\ (~cret[1].ok /\ cret[1].text = << "Failed to connect to gateway" >>)
                   => code = 2

\* ------------------------------------------------------------------------
\* Properties of the locks of the messenger task
\* ------------------------------------------------------------------------

\* A provider call is due or being made, a tool is due or executing or the
\* round is being appended, a reply is due or being sent.
AwaitingOthers ==
    \/ mpc \in { "loop", "tools", "append" }
    \/ mpc = "send"

\* C33: the lock of the conversation store is held only from its
\* acquisition for the snapshot to the snapshot (a message is due) and from
\* its acquisition for the history update to the end of the update; it is
\* not held when a provider call, a tool or a messenger send is due or under
\* way, nor between messages.
C33_StoreLockShort ==
    /\ storeGuard = "snapshot" => (mpc = "next" /\ pending # << >>)
    /\ storeGuard = "update" => mpc = "store"
    /\ AwaitingOthers => storeGuard = "none"
    /\ mpc \in { "sleep", "returned", "stopped" } => storeGuard = "none"

\* The lock is held for the history update of a message whose loop made two
\* provider calls and ran a tool.
C33_Witness ==
    /\ storeGuard = "update"
    /\ mpc = "store"
    /\ round = 2
    /\ toolRan

\* The steps of the messenger task.
TaskStep ==
    \/ Shutdown
    \/ PollLock
    \/ Poll
    \/ CycleDone
    \/ SnapshotLock
    \/ ProcessStart
    \/ ProviderCall
    \/ LoopExhausted
    \/ ToolStart
    \/ ToolReturn
    \/ AppendToolRound
    \/ UpdateLock
    \/ StoreUpdate
    \/ SendLock
    \/ SendReply
    \/ HandleReturn

\* The task has ended, or sleeps with no further poll cycle to come.
TaskAtRest ==
    \/ mpc = "stopped"
    \/ mpc = "sleep" /\ mgrGuard = "none" /\ polls >= MaxPolls /\ ~cancelled

\* C38: the messenger task never holds a guard of the conversation store and
\* a guard of the messenger manager together; where it is about to lock one
\* of them it holds no earlier guard of that lock; and it always has a step
\* to take until it ends.
C38_LocksApart ==
    /\ ~(storeGuard # "none" /\ mgrGuard # "none")
    /\ (mpc = "next" /\ pending # << >>) => storeGuard \in { "none", "snapshot" }
    /\ mpc = "store" => storeGuard \in { "none", "update" }
    /\ mpc = "sleep" => mgrGuard \in { "none", "poll" }
    /\ mpc = "send" => mgrGuard \in { "none", "send" }
    /\ ~TaskAtRest => ENABLED TaskStep

\* The manager is locked for the send of a reply, after the store was locked
\* and released twice for the same message.
C38_Witness ==
    /\ mpc = "send"
    /\ mgrGuard = "send"
    /\ storeGuard = "none"
    /\ conversations[CurKey] # << >>

\* ------------------------------------------------------------------------
\* Properties of the reply text
\* ------------------------------------------------------------------------

\* A step in which the provider has answered with a response.
ResponseArrives == mpc = "loop" /\ round' = round + 1 /\ model_resp' # None

\* C34: every provider response of the loop, with tool calls or without,
\* puts its text at the end of the reply gathered so far (an empty text adds
\* nothing), no other step of the loop touches the reply, and the reply the
\* loop ends with is never one the later steps change: the final reply is
\* the texts of the responses in round order.
C34_ReplyIsConcatenation ==
    /\ [][ResponseArrives => final_response' = final_response \o model_resp'[1].text]_vars
    /\ [][~ResponseArrives => final_response' = final_response]_vars
    /\ [](round = 0 => final_response = << >>)

\* The loop has ended after two rounds: the first response had the text "a"
\* and a tool call, the second one the text "b".
C34_Witness ==
    /\ mpc = "store"
    /\ loopExit = "break"
    /\ round = 2
    /\ toolRan
    /\ final_response = << "a", "b" >>

\* ------------------------------------------------------------------------
\* Properties of what a processed message adds to its conversation
\* ------------------------------------------------------------------------

\* The entries a processed message is to add: its user message and, for a
\* reply that is not empty, one assistant message with the reply.
Gained ==
    << [role |-> "user", content |-> Some(cur[1].msg.content),
        tool_calls |-> None, tool_call_id |-> None] >>
    \o (IF final_response = << >> THEN << >>
        ELSE << [role |-> "assistant", content |-> Some(final_response),
                 tool_calls |-> None, tool_call_id |-> None] >>)

\* The step that updates the stored conversation of the message in process.
HistoryUpdated == mpc = "store" /\ mpc' = "send"

\* C35: the update of the history after the tool loop puts, at the end of the
\* conversation of the message's chat, the user message and then, exactly
\* when the reply is not empty, one assistant message with the reply, and
\* nothing else (a conversation with room for them is the old one followed
\* by them); no other conversation and no other step changes the store; no
\* stored entry is a system message, an assistant tool-call entry or a tool
\* result, and no stored assistant message has an empty content.
C35_HistoryGain ==
    /\ [][ HistoryUpdated =>
              /\ DOMAIN conversations' = DOMAIN conversations \cup { CurKey }
              /\ LastEntries(conversations'[CurKey], Len(Gained)) = Gained
              /\ Len(conversations[CurKey]) + Len(Gained) <= MAX_HISTORY_MESSAGES =>
                    conversations'[CurKey] = conversations[CurKey] \o Gained
              /\ \A k \in DOMAIN conversations \ { CurKey } :
                    conversations'[k] = conversations[k] ]_vars
    /\ [][ ~HistoryUpdated => conversations' = conversations ]_vars
    /\ [](\A k \in DOMAIN conversations :
            \A i \in 1..Len(conversations[k]) :
               LET e == conversations[k][i]
               IN  /\ e.role \in { "user", "assistant" }
                   /\ e.tool_calls = None
                   /\ e.tool_call_id = None
                   /\ e.role = "assistant" => (e.content # None /\ e.content # Some(<< >>)))

\* A message whose loop ran a tool round and ended with an empty reply was
\* stored: the conversation, which had room, ends with the user message.
C35_Witness ==
    /\ mpc = "send"
    /\ toolRan
    /\ final_response = << >>
    /\ Len(conversations[CurKey]) = MAX_HISTORY_MESSAGES - MaxShortfall + 1
    /\ conversations[CurKey][Len(conversations[CurKey])] =
          ChatMessage("user", cur[1].msg.content)

\* ------------------------------------------------------------------------
\* Properties of a message whose provider call failed
\* ------------------------------------------------------------------------

\* C36: when a provider call fails, the stored conversation of the chat is
\* the one the request was built from (the user message of the request is
\* not in it), no reply has gone out, and neither the store nor the outbox
\* changes in the failing step or after it; the processing has returned.
C36_FailureLeavesNoTrace ==
    /\ [](loopExit = "error" =>
            LET h == conversations[CurKey]
            IN  /\ mpc \in { "returned", "next", "sleep", "stopped" }
                /\ Len(messages) >= Len(h) + 2
                /\ SubSeq(messages, 2, Len(h) + 1) = h
                /\ messages[Len(h) + 2] = ChatMessage("user", cur[1].msg.content)
                /\ outbox = << >>)
    /\ [][ loopExit' = "error" =>
              /\ conversations' = conversations
              /\ outbox' = outbox ]_vars

\* The provider failed in the second round, after a first response with a
\* text and a round of tools, for a chat with a stored conversation: the
\* loop has gone on to the next message and the conversation is as it was.
C36_Witness ==
    /\ loopExit = "error"
    /\ mpc = "next"
    /\ round = 2
    /\ toolRan
    /\ final_response # << >>
    /\ conversations[CurKey] = StoredHistory(2, TRUE)

\* ------------------------------------------------------------------------
\* Properties of a poll cycle
\* ------------------------------------------------------------------------

RECURSIVE Returned(_, _)
\* The number of messages the messengers 1..i returned in the poll rs.
Returned(rs, i) ==
    IF i = 0 THEN 0
    ELSE Returned(rs, i - 1) + (IF rs[i].ok THEN Len(rs[i].text) ELSE 0)

\* q holds the messages of the poll rs and no others, messenger by messenger
\* in the order of the manager and, for one messenger, in the order returned.
InPollOrder(q, rs) ==
    /\ Len(q) = Returned(rs, Len(messengers))
    /\ \A i \in 1..Len(messengers) :
          rs[i].ok =>
             \A j \in 1..Len(rs[i].text) :
                /\ q[Returned(rs, i - 1) + j].msg = rs[i].text[j]
                /\ q[Returned(rs, i - 1) + j].mtype = messengers[i].mtype

CyclePolls == [1..Len(messengers) -> CycleResults]

RECURSIVE FailuresUpTo(_, _)
\* The error lines of the messengers 1..i that failed in the poll rs.
FailuresUpTo(rs, i) ==
    IF i = 0 THEN << >>
    ELSE FailuresUpTo(rs, i - 1)
            \o (IF rs[i].ok THEN << >> ELSE << PollErrorLine(messengers[i].mtype) >>)

\* The poll rs has returned: its failures are logged and its messages are
\* the ones to process, in poll order.
PollOutcome(rs) ==
    /\ errlog' = errlog \o FailuresUpTo(rs, Len(messengers))
    /\ InPollOrder(pending', rs)

\* The step in which the poll of a cycle returns.
PollReturns == mpc = "sleep" /\ mpc' = "next"

\* The step in which the processing of a message starts.
ProcessingStarts == mpc = "next" /\ mpc' = "loop"

RECURSIVE Patched(_, _)
\* Patch semantics: a patch that is no object is the result; a patch that is
\* an object is applied key by key to the base (to the empty object when the
\* base is none): a null drops the key, another value is the key's value
\* patched by it, and a key the patch does not name stays.
Patched(b, p) ==
    IF p.kind # "obj" THEN p
    ELSE LET bm == IF b.kind = "obj" THEN b.members ELSE << >>
             pm == p.members
             Member(k) ==
                IF HasKey(pm, k)
                THEN (IF ValueAt(pm, k).kind = "null" THEN << >>
                      ELSE << [k |-> k,
                               v |-> Patched(IF HasKey(bm, k) THEN ValueAt(bm, k)
                                             ELSE JNull,
                                             ValueAt(pm, k))] >>)
                ELSE (IF HasKey(bm, k) THEN << [k |-> k, v |-> ValueAt(bm, k)] >>
                      ELSE << >>)
         IN  JObj(Member("a") \o Member("b"))

\* C40: what merge_json(base, patch) returns is the base patched by the
\* patch: at every depth a key whose patch value is null is absent, also
\* inside an object the patch adds, objects are merged and any other patch
\* value replaces the base value.
C40_MergeIsPatch ==
    merged # None => merged[1] = Patched(base[1], patch[1])

\* The call of this step is a config.apply or config.patch for a config file
\* that exists, with no baseHash or with one that is not the hash config.get
\* returns for the file.
StaleWrite ==
    /\ gwReq' # None
    /\ gwReq'[1].action \in { "config.apply", "config.patch" }
    /\ cfgFile # None
    /\ \/ gwReq'[1].baseHash = None
       \/ gwReq'[1].baseHash[1] # ConfigHash(cfgFile[1])

\* C39: a config.apply or config.patch without the hash of the existing
\* config file is refused: it returns an error and the file stays as it is.
C39_StaleHashRefused ==
    [][ StaleWrite => (~gwRet'[1].ok /\ cfgFile' = cfgFile) ]_vars

====
